---- MODULE Spec2Model ----
(***************************************************************************)
(* Account lifecycle of the go-fiber-starter backend: the auth service     *)
(* (SignUp, SignIn, GetUserByID), the user service (CreateUser, GetUsers,  *)
(* GetUserByID, UpdateUser, DeleteUser, RestoreUser, CalculatePagination), *)
(* the handlers (ListUsers with its goroutine, GetUserStats, the two       *)
(* handleServiceError mappings) and the GORM repositories they call,       *)
(* over the one relational table "users".                                  *)
(* Spec runs the auth calls, the lookup and the delete one at a time;      *)
(* SpecConcurrent lets DeleteUser calls interleave between their two store *)
(* round trips; SpecUsers runs the calls that write the table; SpecList    *)
(* lists a table that those calls change; SpecPagination computes page     *)
(* counts; SpecAccounts adds the administrative creation and sign-in to    *)
(* the writing calls and SpecUnique runs the calls that add, change or     *)
(* remove rows; SpecCreateConcurrent lets creations interleave from        *)
(* look-up to insert; SpecErrors lets the store and the primitives fail;   *)
(* SpecListUsers runs a ListUsers request and its goroutine step by step;  *)
(* SpecStats runs GetUserStats call by call beside the writing calls.      *)
(*                                                                         *)
(* Strings that the code transforms or measures (emails, passwords,        *)
(* digests, storage error texts) are sequences of one-character strings    *)
(* or of words; strings the code only compares are TLA+ strings.  A nil    *)
(* pointer is the empty set, a non-nil pointer a singleton set.            *)
(***************************************************************************)
EXTENDS Integers, Sequences, FiniteSets, TLC

(* ------------------------------ bounds -------------------------------- *)

\* number of identifiers uuid.New() hands out to rows that get inserted
MaxUsers == 2
\* concurrent DeleteUser calls
NumProcs == 2

(* ------------------------- program constants -------------------------- *)

\* len(data.Password) < 8
MinPasswordLen == 8

Procs == 1..NumProcs
UUIDs == 1..MaxUsers
\* a NULL deleted_at column / nil *time.Time
NULL == 0

(* ------------------------------ inputs -------------------------------- *)

NameInputs == {"", "Ann"}
PhotoInputs == {"", "photo.jpg"}
EmailInputs == { <<>>, <<"a">>, <<" ", "A", " ">>, <<"b">> }
ShortPassword == <<"l", "o", "n", "g", "p", "a", "s">>
GoodPassword == <<"l", "o", "n", "g", "p", "a", "s", "s">>
OtherPassword == <<"l", "o", "n", "g", "p", "a", "s", "s", "1">>
PasswordInputs == { <<>>, ShortPassword, GoodPassword, OtherPassword }
\* the salt bcrypt draws
Salts == {"s1"}
\* id strings a caller can pass: the text of a UUID, or text that is none
MalformedID == [form |-> "malformed", uuid |-> 0]
IdText(uuid) == [form |-> "canonical", uuid |-> uuid]
IdInputs == {IdText(i) : i \in UUIDs} \cup {MalformedID}

(* --------------------------- string helpers --------------------------- *)

\* unicode.ToLower on one character
ToLowerChar(c) ==
    CASE c = "A" -> "a"
      [] c = "B" -> "b"
      [] OTHER -> c

\* strings.ToLower
ToLower(s) == [i \in 1..Len(s) |-> ToLowerChar(s[i])]

IsSpace(c) == c \in {" ", "\t", "\n"}

RECURSIVE TrimLeft(_)
TrimLeft(s) ==
    IF s = <<>> THEN s
    ELSE IF IsSpace(Head(s)) THEN TrimLeft(Tail(s)) ELSE s

RECURSIVE TrimRight(_)
TrimRight(s) ==
    IF s = <<>> THEN s
    ELSE IF IsSpace(s[Len(s)]) THEN TrimRight(SubSeq(s, 1, Len(s) - 1)) ELSE s

\* strings.TrimSpace
TrimSpace(s) == TrimRight(TrimLeft(s))

\* strings.ToLower(strings.TrimSpace(email))
NormalizeEmail(e) == ToLower(TrimSpace(e))

\* strings.Contains on an error text, word by word
Contains(text, word) == \E i \in 1..Len(text) : text[i] = word

\* error.Error() of a storage error: its words as one string
RECURSIVE Join(_)
Join(words) ==
    IF words = <<>> THEN ""
    ELSE IF Len(words) = 1 THEN words[1]
    ELSE words[1] \o " " \o Join(Tail(words))

(* -------------------------- hashing package --------------------------- *)

BcryptPrefix == "$2a$10$"

\* hashing.HashPassword: a bcrypt digest, which carries its version/cost
\* prefix and salt and is bound to the password
HashPassword(password, salt) == <<BcryptPrefix, salt>> \o password

\* hashing.VerifyPassword: TRUE when bcrypt.CompareHashAndPassword returns
\* nil; a stored value that is no bcrypt digest never verifies
VerifyPassword(hashedPassword, password) ==
    /\ Len(hashedPassword) >= 2
    /\ hashedPassword[1] = BcryptPrefix
    /\ SubSeq(hashedPassword, 3, Len(hashedPassword)) = password

\* hashing.GenerateToken: 32 random bytes, base64: never the empty string
GenerateToken == "token"

(* ------------------------------ errors -------------------------------- *)

NoErr == "nil"
ErrNameRequired == "name is required"
ErrEmailRequired == "email is required"
ErrPasswordRequired == "password is required"
ErrPasswordTooShort == "password must be at least 8 characters"
ErrPasswordMismatch == "passwords do not match"
ErrEmailExists == "user with that email already exists"
ErrCreateFailed == "failed to create user"
ErrInvalidCredentials == "invalid email or password"
ErrInvalidID == "invalid user ID format"
ErrUserNotFound == "user not found"
\* gorm.ErrRecordNotFound
ErrRecordNotFound == "record not found"
\* PostgreSQL's text for SQLSTATE 23505
PgDuplicateKey ==
    <<"duplicate", "key", "value", "violates", "unique", "constraint">>

VARIABLES
    users,      \* the rows of table "users"
    nextID,     \* the next identifier uuid.New() gives an inserted row
    procs,      \* the position of each DeleteUser call in flight
    last,       \* the step just taken: its operation and what it returned
    plain,      \* history: the password each account was registered with
    delCount,   \* history: successful DeleteUser calls per identifier
    purged      \* history: identifiers whose HardDeleteUser succeeded

vars == <<users, nextID, procs, last, plain, delCount, purged>>


(* ------------------- auth service: SignUp (register) ------------------- *)

\* validateSignUpData with the length bound off by one
validateSignUpData_OffByOne(data) ==
    IF data.Name = "" THEN ErrNameRequired
    ELSE IF data.Email = <<>> THEN ErrEmailRequired
    ELSE IF data.Password = <<>> THEN ErrPasswordRequired
    ELSE IF Len(data.Password) < MinPasswordLen - 1 THEN ErrPasswordTooShort
    ELSE NoErr

\* service.validateSignUpData
validateSignUpData(data) ==
    IF data.Name = "" THEN ErrNameRequired
    ELSE IF data.Email = <<>> THEN ErrEmailRequired
    ELSE IF data.Password = <<>> THEN ErrPasswordRequired
    ELSE IF Len(data.Password) < MinPasswordLen THEN ErrPasswordTooShort
    ELSE NoErr

\* service.getPhotoOrDefault
getPhotoOrDefault(photo) == IF photo = "" THEN "default.png" ELSE photo

\* the entity with the email trimmed but not lower-cased
NewSignUpUser_NoLower(data, id, hashedPassword, now) ==
    [ ID        |-> id,
      Name      |-> data.Name,
      Email     |-> TrimSpace(data.Email),
      Password  |-> hashedPassword,
      Role      |-> "user",
      Provider  |-> "local",
      Photo     |-> getPhotoOrDefault(data.Photo),
      Verified  |-> FALSE,
      CreatedAt |-> now,
      UpdatedAt |-> now,
      DeletedAt |-> NULL ]

\* the entity with the submitted password in place of its digest
NewSignUpUser_Plaintext(data, id, hashedPassword, now) ==
    [ ID        |-> id,
      Name      |-> data.Name,
      Email     |-> NormalizeEmail(data.Email),
      Password  |-> data.Password,
      Role      |-> "user",
      Provider  |-> "local",
      Photo     |-> getPhotoOrDefault(data.Photo),
      Verified  |-> FALSE,
      CreatedAt |-> now,
      UpdatedAt |-> now,
      DeletedAt |-> NULL ]

\* the user entity SignUp builds
NewSignUpUser(data, id, hashedPassword, now) ==
    [ ID        |-> id,
      Name      |-> data.Name,
      Email     |-> NormalizeEmail(data.Email),
      Password  |-> hashedPassword,
      Role      |-> "user",
      Provider  |-> "local",
      Photo     |-> getPhotoOrDefault(data.Photo),
      Verified  |-> FALSE,
      CreatedAt |-> now,
      UpdatedAt |-> now,
      DeletedAt |-> NULL ]

\* a table whose only unique column is the primary key
UniqueViolation_IdOnly(rows, user) == \E r \in rows : r.ID = user.ID

\* the unique index on users.email and the primary key on users.id
UniqueViolation(rows, user) ==
    \E r \in rows : r.Email = user.Email \/ r.ID = user.ID

\* authRepository.CreateUser: INSERT INTO users; the insert is refused with
\* PostgreSQL's duplicate-key error when the email is already in the table
AuthRepoCreateUser(rows, user) ==
    IF UniqueViolation(rows, user)
    THEN [rows |-> rows, err |-> PgDuplicateKey]
    ELSE [rows |-> rows \cup {user}, err |-> <<>>]

\* the translation looking for a text PostgreSQL does not send
SignUpCreateError_WrongText(err) ==
    IF Contains(err, "conflict")
    THEN ErrEmailExists
    ELSE ErrCreateFailed

\* SignUp's translation of a failed CreateUser; any other failure is
\* wrapped: fmt.Errorf("failed to create user: %w", err)
SignUpCreateError(err) ==
    IF Contains(err, "duplicate") \/ Contains(err, "unique")
    THEN ErrEmailExists
    ELSE ErrCreateFailed \o ": " \o Join(err)

\* a confirmation check that lets every confirmation through
PasswordsMatch_Always(data) == TRUE

\* SignUp's comparison of the password with its confirmation
PasswordsMatch(data) == data.Password = data.PasswordConfirm

\* service.SignUp as a function of the table and of what uuid.New(),
\* bcrypt and time.Now() return: the returned (user, error) and the table
SignUpResult(rows, data, id, salt, now) ==
    IF validateSignUpData(data) # NoErr
    THEN [user |-> {}, err |-> validateSignUpData(data), rows |-> rows]
    ELSE IF ~PasswordsMatch(data)
    THEN [user |-> {}, err |-> ErrPasswordMismatch, rows |-> rows]
    ELSE
        LET user == NewSignUpUser(data, id,
                                  HashPassword(data.Password, salt), now)
            created == AuthRepoCreateUser(rows, user)
        IN  IF created.err # <<>>
            THEN [user |-> {}, err |-> SignUpCreateError(created.err),
                  rows |-> created.rows]
            ELSE [user |-> {user}, err |-> NoErr, rows |-> created.rows]

SignUpData ==
    [ Name : NameInputs, Email : EmailInputs, Password : PasswordInputs,
      PasswordConfirm : PasswordInputs, Photo : PhotoInputs ]

\* time.Now(): the clock moves on between two insertions, so instants are
\* numbered by the insertion they precede
TimeNow == nextID

SignUp(data, salt, now) ==
    LET res == SignUpResult(users, data, nextID, salt, now) IN
    /\ res.user # {} => nextID <= MaxUsers
    /\ users' = res.rows
    /\ nextID' = IF res.user # {} THEN nextID + 1 ELSE nextID
    /\ plain' = IF res.user # {}
                THEN [plain EXCEPT ![nextID] = data.Password]
                ELSE plain
    /\ last' = [op |-> "SignUp", user |-> res.user, err |-> res.err]
    /\ UNCHANGED <<procs, delCount, purged>>

(* ----------------- auth service: SignIn (authenticate) ----------------- *)

\* authRepository.GetUserByEmail: WHERE email = ? ORDER BY id LIMIT 1 on
\* user.User, whose DeletedAt is a plain *time.Time: no deleted_at filter
AuthRepoGetUserByEmail(rows, email) ==
    LET found == {r \in rows : r.Email = email} IN
    IF found = {}
    THEN [user |-> {}, err |-> ErrRecordNotFound]
    ELSE [user |-> {CHOOSE r \in found : \A q \in found : r.ID <= q.ID},
          err |-> NoErr]

\* SignIn telling the caller that the email is unknown
SignInResult_Leaky(rows, email, password) ==
    LET got == AuthRepoGetUserByEmail(rows, NormalizeEmail(email)) IN
    IF got.err # NoErr
    THEN [token |-> "", user |-> {}, err |-> ErrUserNotFound]
    ELSE LET user == CHOOSE u \in got.user : TRUE IN
         IF ~VerifyPassword(user.Password, password)
         THEN [token |-> "", user |-> {}, err |-> ErrInvalidCredentials]
         ELSE [token |-> GenerateToken, user |-> {user}, err |-> NoErr]

\* SignIn looking the email up as typed
SignInResult_RawEmail(rows, email, password) ==
    LET got == AuthRepoGetUserByEmail(rows, email) IN
    IF got.err # NoErr
    THEN [token |-> "", user |-> {}, err |-> ErrInvalidCredentials]
    ELSE LET user == CHOOSE u \in got.user : TRUE IN
         IF ~VerifyPassword(user.Password, password)
         THEN [token |-> "", user |-> {}, err |-> ErrInvalidCredentials]
         ELSE [token |-> GenerateToken, user |-> {user}, err |-> NoErr]

\* service.SignIn: the returned (token, user, error)
SignInResult(rows, email, password) ==
    LET got == AuthRepoGetUserByEmail(rows, NormalizeEmail(email)) IN
    IF got.err # NoErr
    THEN [token |-> "", user |-> {}, err |-> ErrInvalidCredentials]
    ELSE LET user == CHOOSE u \in got.user : TRUE IN
         IF ~VerifyPassword(user.Password, password)
         THEN [token |-> "", user |-> {}, err |-> ErrInvalidCredentials]
         ELSE [token |-> GenerateToken, user |-> {user}, err |-> NoErr]

SignIn(email, password) ==
    LET res == SignInResult(users, email, password) IN
    /\ last' = [op |-> "SignIn", email |-> email, password |-> password,
                token |-> res.token, user |-> res.user, err |-> res.err]
    /\ UNCHANGED <<users, nextID, procs, plain, delCount, purged>>

(* ----------------- user service: GetUserByID (lookup) ------------------ *)

\* uuid.Parse: the identifier an id string denotes, or an error
UuidParse(id) ==
    IF id.form = "canonical"
    THEN [uuid |-> id.uuid, err |-> NoErr]
    ELSE [uuid |-> 0, err |-> "invalid UUID"]

\* toDomain: the UserResponse of a row; the password is no field of it
toDomain(model) ==
    [ ID        |-> model.ID,
      Name      |-> model.Name,
      Email     |-> model.Email,
      Role      |-> model.Role,
      Provider  |-> model.Provider,
      Photo     |-> model.Photo,
      Verified  |-> model.Verified,
      CreatedAt |-> model.CreatedAt,
      UpdatedAt |-> model.UpdatedAt,
      DeletedAt |-> model.DeletedAt ]

\* userRepository.GetUserByID: WHERE id = ? LIMIT 1.  DeletedAt is a plain
\* *time.Time, not gorm.DeletedAt, so GORM adds no "deleted_at IS NULL"
\* condition and Unscoped() removes none: includeDeleted changes nothing
UserRepoGetUserByID(rows, id, includeDeleted) ==
    LET found == {r \in rows : r.ID = UuidParse(id).uuid} IN
    IF found = {}
    THEN [user |-> {}, err |-> ErrRecordNotFound]
    ELSE [user |-> {toDomain(CHOOSE r \in found : TRUE)}, err |-> NoErr]

\* GetUserByID handing the store's error on untranslated
GetUserByIDResult_NoTranslate(rows, id) ==
    IF UuidParse(id).err # NoErr
    THEN [user |-> {}, err |-> ErrInvalidID]
    ELSE LET got == UserRepoGetUserByID(rows, id, FALSE) IN
         IF got.err # NoErr
         THEN [user |-> {}, err |-> got.err]
         ELSE [user |-> got.user, err |-> NoErr]

\* service.GetUserByID: the returned (user, error)
GetUserByIDResult(rows, id) ==
    IF UuidParse(id).err # NoErr
    THEN [user |-> {}, err |-> ErrInvalidID]
    ELSE LET got == UserRepoGetUserByID(rows, id, FALSE) IN
         IF got.err # NoErr
         THEN [user |-> {},
               err |-> IF got.err = ErrRecordNotFound
                       THEN ErrUserNotFound ELSE got.err]
         ELSE [user |-> got.user, err |-> NoErr]

GetUserByID(id) ==
    LET res == GetUserByIDResult(users, id) IN
    /\ last' = [op |-> "GetUserByID", id |-> id, user |-> res.user,
                err |-> res.err]
    /\ UNCHANGED <<users, nextID, procs, plain, delCount, purged>>

(* ---------------- user service: DeleteUser (softDelete) ---------------- *)

\* the delete without its RowsAffected check
UserRepoDeleteUser_NoRowCheck(rows, id) ==
    [rows |-> {r \in rows : r.ID # UuidParse(id).uuid}, err |-> NoErr]

\* userRepository.DeleteUser: Delete(&UserModel{}) WHERE id = ?.  UserModel
\* has no gorm.DeletedAt field, so GORM issues DELETE FROM users and the
\* row is removed; with no row affected the call returns ErrRecordNotFound
UserRepoDeleteUser(rows, id) ==
    LET hit == {r \in rows : r.ID = UuidParse(id).uuid} IN
    IF hit = {}
    THEN [rows |-> rows, err |-> ErrRecordNotFound]
    ELSE [rows |-> rows \ hit, err |-> NoErr]

\* DeleteUser up to and including its existence check: the error it returns
\* there, or NoErr when it goes on to the delete
DeleteUserCheckResult(rows, id) ==
    IF UuidParse(id).err # NoErr THEN ErrInvalidID
    ELSE LET got == UserRepoGetUserByID(rows, id, FALSE) IN
         IF got.err = NoErr THEN NoErr
         ELSE IF got.err = ErrRecordNotFound THEN ErrUserNotFound
         ELSE got.err

\* DeleteUser's delete step: the table and the error it returns
DeleteUserDeleteResult(rows, id) ==
    LET del == UserRepoDeleteUser(rows, id) IN
    [rows |-> del.rows,
     err |-> IF del.err = ErrRecordNotFound THEN ErrUserNotFound
             ELSE del.err]

\* service.DeleteUser run alone: the table and the error it returns
DeleteUserResult(rows, id) ==
    IF DeleteUserCheckResult(rows, id) # NoErr
    THEN [rows |-> rows, err |-> DeleteUserCheckResult(rows, id)]
    ELSE DeleteUserDeleteResult(rows, id)

\* history: one more successful DeleteUser of the account the id names
CountDelete(count, id, err) ==
    IF err = NoErr /\ count[UuidParse(id).uuid] <= NumProcs
    THEN [count EXCEPT ![UuidParse(id).uuid] = @ + 1]
    ELSE count

Idle == [pc |-> "idle", id |-> MalformedID]

\* DeleteUser(id), no other call running between its two round trips
DeleteUser(id) ==
    LET res == DeleteUserResult(users, id) IN
    /\ \A p \in Procs : procs[p].pc = "idle"
    /\ users' = res.rows
    /\ delCount' = CountDelete(delCount, id, res.err)
    /\ last' = [op |-> "DeleteUser", step |-> "whole", id |-> id,
                done |-> TRUE, err |-> res.err]
    /\ UNCHANGED <<nextID, procs, plain, purged>>

\* a call of DeleteUser(id) runs to the end of its existence check
DeleteUserCheck(p, id) ==
    LET err == DeleteUserCheckResult(users, id) IN
    /\ procs[p].pc = "idle"
    /\ procs' = IF err = NoErr
                THEN [procs EXCEPT ![p] = [pc |-> "checked", id |-> id]]
                ELSE procs
    /\ last' = [op |-> "DeleteUser", step |-> "check", id |-> id,
                done |-> err # NoErr, err |-> err]
    /\ UNCHANGED <<users, nextID, plain, delCount, purged>>

\* the call goes on to the delete and returns
DeleteUserDelete(p) ==
    LET id == procs[p].id
        res == DeleteUserDeleteResult(users, id)
    IN
    /\ procs[p].pc = "checked"
    /\ users' = res.rows
    /\ procs' = [procs EXCEPT ![p] = Idle]
    /\ delCount' = CountDelete(delCount, id, res.err)
    /\ last' = [op |-> "DeleteUser", step |-> "delete", id |-> id,
                done |-> TRUE, err |-> res.err]
    /\ UNCHANGED <<nextID, plain, purged>>

(* ---------------- user service: RestoreUser (restore) ----------------- *)

ErrNotDeleted == "user is not deleted"
\* GORM's error for a statement that was given neither a model nor a table
ErrTableNotSet == "unsupported data type: Table not set"

\* userRepository.RestoreUser: Unscoped().Where("id = ?", id)
\* .Update("deleted_at", nil) on a *gorm.DB that has neither Model nor
\* Table: GORM cannot name the table and fails before it sends any SQL
UserRepoRestoreUser(rows, id) == [rows |-> rows, err |-> ErrTableNotSet]

\* service.RestoreUser: the returned (user, error) and the table
RestoreUserResult(rows, id) ==
    IF UuidParse(id).err # NoErr
    THEN [user |-> {}, err |-> ErrInvalidID, rows |-> rows]
    ELSE LET got == UserRepoGetUserByID(rows, id, TRUE) IN
         IF got.err # NoErr
         THEN [user |-> {},
               err |-> IF got.err = ErrRecordNotFound
                       THEN ErrUserNotFound ELSE got.err,
               rows |-> rows]
         ELSE IF (CHOOSE u \in got.user : TRUE).DeletedAt = NULL
         THEN [user |-> {}, err |-> ErrNotDeleted, rows |-> rows]
         ELSE LET res == UserRepoRestoreUser(rows, id) IN
              IF res.err # NoErr
              THEN [user |-> {},
                    err |-> IF res.err = ErrRecordNotFound
                            THEN ErrUserNotFound ELSE res.err,
                    rows |-> res.rows]
              ELSE LET again == UserRepoGetUserByID(res.rows, id, FALSE) IN
                   [user |-> again.user, err |-> again.err,
                    rows |-> res.rows]

RestoreUser(id) ==
    LET res == RestoreUserResult(users, id) IN
    /\ users' = res.rows
    /\ last' = [op |-> "RestoreUser", id |-> id, user |-> res.user,
                err |-> res.err]
    /\ UNCHANGED <<nextID, procs, plain, delCount, purged>>

(* --------------- user repository: HardDeleteUser (hardDelete) ---------- *)

\* PostgreSQL's text for SQLSTATE 22P02 on a uuid column
PgInvalidUUID == "invalid input syntax for type uuid"

\* a removal that reports success and leaves the row in the table
UserRepoHardDeleteUser_KeepsRow(rows, id) ==
    IF UuidParse(id).err # NoErr
    THEN [rows |-> rows, err |-> PgInvalidUUID]
    ELSE LET hit == {r \in rows : r.ID = UuidParse(id).uuid} IN
         IF hit = {}
         THEN [rows |-> rows, err |-> ErrRecordNotFound]
         ELSE [rows |-> rows, err |-> NoErr]

\* userRepository.HardDeleteUser: Unscoped().Where("id = ?", id)
\* .Delete(&UserModel{}): DELETE FROM users WHERE id = ?.  The repository
\* does not parse the id; text that is no UUID is refused by the store
UserRepoHardDeleteUser(rows, id) ==
    IF UuidParse(id).err # NoErr
    THEN [rows |-> rows, err |-> PgInvalidUUID]
    ELSE LET hit == {r \in rows : r.ID = UuidParse(id).uuid} IN
         IF hit = {}
         THEN [rows |-> rows, err |-> ErrRecordNotFound]
         ELSE [rows |-> rows \ hit, err |-> NoErr]

HardDeleteUser(id) ==
    LET res == UserRepoHardDeleteUser(users, id) IN
    /\ users' = res.rows
    /\ purged' = IF res.err = NoErr
                 THEN purged \cup {UuidParse(id).uuid}
                 ELSE purged
    /\ last' = [op |-> "HardDeleteUser", id |-> id, err |-> res.err]
    /\ UNCHANGED <<nextID, procs, plain, delCount>>

(* ------------------ user service: UpdateUser (update) ------------------ *)

ErrEmailTaken == "email is already taken by another user"

\* userRepository.GetUserByEmail: WHERE email = ? ORDER BY id LIMIT 1; the
\* email is compared as it was passed in
UserRepoGetUserByEmail(rows, email) ==
    LET found == {r \in rows : r.Email = email} IN
    IF found = {}
    THEN [user |-> {}, err |-> ErrRecordNotFound]
    ELSE [user |-> {toDomain(CHOOSE r \in found :
                                \A q \in found : r.ID <= q.ID)},
          err |-> NoErr]

\* a User value with every field at its zero value
ZeroUser ==
    [ ID        |-> 0,
      Name      |-> "",
      Email     |-> <<>>,
      Password  |-> <<>>,
      Role      |-> "",
      Provider  |-> "",
      Photo     |-> "",
      Verified  |-> FALSE,
      CreatedAt |-> 0,
      UpdatedAt |-> 0,
      DeletedAt |-> NULL ]

\* gorm's Updates(&model) on one row: a struct's zero-valued fields are
\* no part of the SET list, so the row keeps its own value for them; the
\* model's ID is nil here (toModel leaves it so for uuid.Nil)
GormUpdates(row, model) ==
    [ ID        |-> row.ID,
      Name      |-> IF model.Name # "" THEN model.Name ELSE row.Name,
      Email     |-> IF model.Email # <<>> THEN model.Email ELSE row.Email,
      Password  |-> IF model.Password # <<>> THEN model.Password
                    ELSE row.Password,
      Role      |-> IF model.Role # "" THEN model.Role ELSE row.Role,
      Provider  |-> IF model.Provider # "" THEN model.Provider
                    ELSE row.Provider,
      Photo     |-> IF model.Photo # "" THEN model.Photo ELSE row.Photo,
      Verified  |-> IF model.Verified THEN model.Verified ELSE row.Verified,
      CreatedAt |-> IF model.CreatedAt # 0 THEN model.CreatedAt
                    ELSE row.CreatedAt,
      UpdatedAt |-> IF model.UpdatedAt # 0 THEN model.UpdatedAt
                    ELSE row.UpdatedAt,
      DeletedAt |-> IF model.DeletedAt # NULL THEN model.DeletedAt
                    ELSE row.DeletedAt ]

\* userRepository.UpdateUser: toModel(user), model.UpdatedAt = time.Now(),
\* Where("id = ?", id).Updates(&model); ErrRecordNotFound with no row hit
UserRepoUpdateUser(rows, id, user, now) ==
    LET hit == {r \in rows : r.ID = UuidParse(id).uuid}
        model == [user EXCEPT !.UpdatedAt = now]
    IN
    IF hit = {}
    THEN [rows |-> rows, err |-> ErrRecordNotFound]
    ELSE [rows |-> (rows \ hit) \cup {GormUpdates(r, model) : r \in hit},
          err |-> NoErr]

\* an update that never looks the new email up
EmailTakenByAnother_Never(rows, existingUser, email) == FALSE

\* UpdateUser's check that the email is not another account's
EmailTakenByAnother(rows, existingUser, email) ==
    /\ email # existingUser.Email
    /\ LET emailUser == UserRepoGetUserByEmail(rows, email).user IN
        /\ emailUser # {}
        /\ \A u \in emailUser : u.ID # existingUser.ID

\* the User value UpdateUser hands to the repository
UpdatedUser(data, now) ==
    [ZeroUser EXCEPT
        !.Name = data.Name,
        !.Role = IF data.Role = "" THEN "user" ELSE data.Role,
        !.Photo = IF data.Photo = "" THEN "default.png" ELSE data.Photo,
        !.UpdatedAt = now]

\* service.UpdateUser: the returned error and the table
UpdateUserResult(rows, id, data, now) ==
    IF UuidParse(id).err # NoErr
    THEN [err |-> ErrInvalidID, rows |-> rows]
    ELSE IF data.Name = ""
    THEN [err |-> ErrNameRequired, rows |-> rows]
    ELSE IF data.Email = <<>>
    THEN [err |-> ErrEmailRequired, rows |-> rows]
    ELSE LET got == UserRepoGetUserByID(rows, id, FALSE) IN
         IF got.err # NoErr
         THEN [err |-> IF got.err = ErrRecordNotFound
                       THEN ErrUserNotFound ELSE got.err,
               rows |-> rows]
         ELSE IF EmailTakenByAnother(rows, CHOOSE u \in got.user : TRUE,
                                     data.Email)
         THEN [err |-> ErrEmailTaken, rows |-> rows]
         ELSE LET res == UserRepoUpdateUser(rows, id,
                                            UpdatedUser(data, now), now)
              IN  [err |-> IF res.err = ErrRecordNotFound
                           THEN ErrUserNotFound ELSE res.err,
                   rows |-> res.rows]

UpdateNames == {"", "Bob"}
UpdateEmails == { <<>>, <<"a">>, <<"b">>, <<"c">> }
UpdateRoles == {"", "admin"}
UpdatePhotos == {"", "new.png"}

UpdateUserData ==
    [ Name : UpdateNames, Email : UpdateEmails, Role : UpdateRoles,
      Photo : UpdatePhotos, Verified : BOOLEAN ]

UpdateUser(id, data, now) ==
    LET res == UpdateUserResult(users, id, data, now) IN
    /\ users' = res.rows
    /\ last' = [op |-> "UpdateUser", id |-> id, err |-> res.err,
                verified |-> data.Verified]
    /\ UNCHANGED <<nextID, procs, plain, delCount, purged>>

(* ----------- user service: CreateUser (administrative creation) -------- *)

\* CreateUser's validation of name, email and password
validateCreateUserData(data) ==
    IF data.Name = "" THEN ErrNameRequired
    ELSE IF data.Email = <<>> THEN ErrEmailRequired
    ELSE IF data.Password = <<>> THEN ErrPasswordRequired
    ELSE IF Len(data.Password) < MinPasswordLen THEN ErrPasswordTooShort
    ELSE NoErr

\* the user entity CreateUser builds: the email and the password are the
\* submitted ones; both time.Now() calls are taken to read the same instant
NewCreateUser(data, id, now) ==
    [ ID        |-> id,
      Name      |-> data.Name,
      Email     |-> data.Email,
      Password  |-> data.Password,
      Role      |-> IF data.Role = "" THEN "user" ELSE data.Role,
      Provider  |-> IF data.Provider = "" THEN "local" ELSE data.Provider,
      Photo     |-> IF data.Photo = "" THEN "default.png" ELSE data.Photo,
      Verified  |-> data.Verified,
      CreatedAt |-> now,
      UpdatedAt |-> now,
      DeletedAt |-> NULL ]

\* userRepository.CreateUser: toModel(user), Create(&model): INSERT INTO
\* users, refused with the duplicate-key error by the unique index on email
UserRepoCreateUser(rows, user) ==
    IF UniqueViolation(rows, user)
    THEN [rows |-> rows, err |-> PgDuplicateKey]
    ELSE [rows |-> rows \cup {user}, err |-> <<>>]

\* CreateUser up to and including its look-up of the email: the error it
\* returns there, or NoErr when it goes on to the insert
CreateUserCheckResult(rows, data) ==
    IF validateCreateUserData(data) # NoErr
    THEN validateCreateUserData(data)
    ELSE IF UserRepoGetUserByEmail(rows, data.Email).user # {}
    THEN ErrEmailExists
    ELSE NoErr

\* CreateUser's insert step: the table, the row stored and the error, which
\* is the store's own error, handed on as it came
CreateUserInsertResult(rows, data, id, now) ==
    LET user == NewCreateUser(data, id, now)
        created == UserRepoCreateUser(rows, user)
    IN  IF created.err # <<>>
        THEN [user |-> {}, err |-> Join(created.err), rows |-> created.rows]
        ELSE [user |-> {user}, err |-> NoErr, rows |-> created.rows]

\* service.CreateUser run alone: the table, the row stored and the error
CreateUserResult(rows, data, id, now) ==
    IF CreateUserCheckResult(rows, data) # NoErr
    THEN [user |-> {}, err |-> CreateUserCheckResult(rows, data),
          rows |-> rows]
    ELSE CreateUserInsertResult(rows, data, id, now)

\* CreateUser(data), no other call running between its two round trips
CreateUser(data, now) ==
    LET res == CreateUserResult(users, data, nextID, now) IN
    /\ \A p \in Procs : procs[p].pc = "idle"
    /\ res.user # {} => nextID <= MaxUsers
    /\ users' = res.rows
    /\ nextID' = IF res.user # {} THEN nextID + 1 ELSE nextID
    /\ plain' = IF res.user # {}
                THEN [plain EXCEPT ![nextID] = data.Password]
                ELSE plain
    /\ last' = [op |-> "CreateUser", step |-> "whole", data |-> data,
                done |-> TRUE, user |-> res.user, err |-> res.err]
    /\ UNCHANGED <<procs, delCount, purged>>

\* a call of CreateUser(data) runs to the end of its look-up of the email
CreateUserCheck(p, data) ==
    LET err == CreateUserCheckResult(users, data) IN
    /\ procs[p].pc = "idle"
    /\ procs' = IF err = NoErr
                THEN [procs EXCEPT ![p] = [pc |-> "looked up",
                                           id |-> MalformedID,
                                           data |-> data]]
                ELSE procs
    /\ last' = [op |-> "CreateUser", step |-> "check", data |-> data,
                done |-> err # NoErr, user |-> {}, err |-> err]
    /\ UNCHANGED <<users, nextID, plain, delCount, purged>>

\* the call goes on to the insert and returns
CreateUserInsert(p, now) ==
    LET data == procs[p].data
        res == CreateUserInsertResult(users, data, nextID, now)
    IN
    /\ procs[p].pc = "looked up"
    /\ res.user # {} => nextID <= MaxUsers
    /\ users' = res.rows
    /\ nextID' = IF res.user # {} THEN nextID + 1 ELSE nextID
    /\ plain' = IF res.user # {}
                THEN [plain EXCEPT ![nextID] = data.Password]
                ELSE plain
    /\ procs' = [procs EXCEPT ![p] = Idle]
    /\ last' = [op |-> "CreateUser", step |-> "insert", data |-> data,
                done |-> TRUE, user |-> res.user, err |-> res.err]
    /\ UNCHANGED <<delCount, purged>>

(* -------------------- user service: GetUsers (list) -------------------- *)

\* Go's int is 64 bits wide.  A page number is kept as the pair (hi, lo)
\* that stands for hi * 2^58 + lo modulo 2^64, with 0 <= hi < 64 and lo a
\* small integer: exact for the small numbers and for the numbers next to
\* a multiple of 2^58, which is where (Page - 1) * PerPage wraps around
Word(hi, lo) == [hi |-> hi, lo |-> lo]
Small(n) == Word(0, n)

\* the sign of a word read as a two's-complement int
IsNegative(x) ==
    \/ x.hi = 0 /\ x.lo < 0
    \/ x.hi = 32 /\ x.lo >= 0
    \/ x.hi > 32
IsPositive(x) == ~IsNegative(x) /\ x # Small(0)

\* x - 1 and x * n on int, n a small positive integer
SubOne(x) == Word(x.hi, x.lo - 1)
MulInt(x, n) == Word((x.hi * n) % 64, x.lo * n)

\* the number of rows OFFSET skips in a result of len rows; gorm leaves
\* OFFSET out of the statement when the offset is not positive
SkippedRows(offset, len) ==
    IF ~IsPositive(offset) THEN 0
    ELSE IF offset.hi = 0 /\ offset.lo <= len THEN offset.lo
    ELSE len

\* AllowedSearchFields
AllowedSearchFields == {"name", "email"}

\* the characters of a name
NameChars(name) ==
    CASE name = "Ann" -> <<"A", "n", "n">>
      [] name = "Bob" -> <<"B", "o", "b">>
      [] OTHER -> <<>>

\* the text of a row's column
Column(row, field) ==
    IF field = "name" THEN NameChars(row.Name) ELSE row.Email

\* PostgreSQL's text ILIKE pattern: % stands for any run of characters,
\* _ for any one character, every other character for itself in either
\* case
RECURSIVE ILike(_, _)
ILike(text, pattern) ==
    IF pattern = <<>> THEN text = <<>>
    ELSE IF Head(pattern) = "%"
    THEN \/ ILike(text, Tail(pattern))
         \/ text # <<>> /\ ILike(Tail(text), pattern)
    ELSE IF Head(pattern) = "_"
    THEN text # <<>> /\ ILike(Tail(text), Tail(pattern))
    ELSE /\ text # <<>>
         /\ ToLowerChar(Head(text)) = ToLowerChar(Head(pattern))
         /\ ILike(Tail(text), Tail(pattern))

\* fmt.Sprintf("%%%s%%", query.Search)
SearchTerm(search) == <<"%">> \o search \o <<"%">>

\* the WHERE clause GetUsers builds.  Unscoped() adds and removes nothing:
\* UserModel has no gorm.DeletedAt field, so no query carries a
\* "deleted_at IS NULL" condition and ShowDeleted has no effect
UserRepoWhere(row, query) ==
    /\ (query.Search # <<>> /\ query.SearchBy # ""
            /\ query.SearchBy \in AllowedSearchFields)
        => ILike(Column(row, query.SearchBy), SearchTerm(query.Search))
    /\ query.Role # "" => row.Role = query.Role
    /\ query.Provider # "" => row.Provider = query.Provider
    /\ \A v \in query.Verified : row.Verified = v

\* ORDER BY created_at DESC; two rows never share a creation instant
RECURSIVE OrderByCreatedAtDesc(_)
OrderByCreatedAtDesc(rows) ==
    IF rows = {} THEN <<>>
    ELSE LET first == CHOOSE r \in rows :
                        \A q \in rows : q.CreatedAt <= r.CreatedAt
         IN  <<first>> \o OrderByCreatedAtDesc(rows \ {first})

\* Select("id, name, email, role, photo, created_at") scanned into a
\* UserResponse: the other fields keep their zero values
SelectListColumns(row) ==
    [ ID        |-> row.ID,
      Name      |-> row.Name,
      Email     |-> row.Email,
      Role      |-> row.Role,
      Provider  |-> "",
      Photo     |-> row.Photo,
      Verified  |-> FALSE,
      CreatedAt |-> row.CreatedAt,
      UpdatedAt |-> 0,
      DeletedAt |-> NULL ]

\* offset := (query.Page - 1) * query.PerPage
Offset(page, perPage) == MulInt(SubOne(page), perPage)

\* userRepository.GetUsers: the returned (users, total, error)
UserRepoGetUsers(rows, query) ==
    LET page == IF ~IsPositive(query.Page) THEN Small(1) ELSE query.Page
        perPage == IF query.PerPage <= 0 THEN 10 ELSE query.PerPage
        found == {r \in rows : UserRepoWhere(r, query)}
        ordered == OrderByCreatedAtDesc(found)
        skip == SkippedRows(Offset(page, perPage), Len(ordered))
        upto == IF skip + perPage <= Len(ordered)
                THEN skip + perPage ELSE Len(ordered)
        models == SubSeq(ordered, skip + 1, upto)
    IN  [users |-> [i \in 1..Len(models) |->
                        toDomain(SelectListColumns(models[i]))],
         total |-> Cardinality(found),
         err |-> NoErr]

\* service.GetUsers's defaults with no upper limit on PerPage
DefaultPagination_NoUpper(query) ==
    [query EXCEPT
        !.Page = IF ~IsPositive(query.Page) THEN Small(1) ELSE query.Page,
        !.PerPage = IF query.PerPage <= 0 THEN 10 ELSE query.PerPage]

\* service.GetUsers's defaults: the query it hands to the repository
DefaultPagination(query) ==
    [query EXCEPT
        !.Page = IF ~IsPositive(query.Page) THEN Small(1) ELSE query.Page,
        !.PerPage = IF query.PerPage <= 0 \/ query.PerPage > 100
                    THEN 10 ELSE query.PerPage]

\* service.GetUsers
GetUsersResult(rows, query) == UserRepoGetUsers(rows, DefaultPagination(query))

\* math.Ceil(float64(n) / float64(d)) for 0 <= n < 2^53 and d > 0, where
\* the conversions and the rounding of the quotient lose nothing
CeilDiv(n, d) == IF n % d = 0 THEN n \div d ELSE n \div d + 1

\* the page count rounded down
CalculatePagination_Floor(total, page, perPage) ==
    total \div (IF perPage <= 0 THEN 10 ELSE perPage)

\* service.CalculatePagination
CalculatePagination(total, page, perPage) ==
    CeilDiv(total, IF perPage <= 0 THEN 10 ELSE perPage)

\* a ListUsersQuery with no filter: first page, ten accounts a page
NoFilter ==
    [ Page |-> Small(1), PerPage |-> 10, Search |-> <<>>, SearchBy |-> "",
      Role |-> "", Provider |-> "", Verified |-> {}, ShowDeleted |-> FALSE ]

GetUsers(query) ==
    LET res == GetUsersResult(users, query) IN
    /\ last' = [op |-> "GetUsers", query |-> query,
                count |-> Len(res.users), total |-> res.total,
                err |-> res.err]
    /\ UNCHANGED <<users, nextID, procs, plain, delCount, purged>>

\* the call of CalculatePagination on the arguments drawn at the start
CalculatePaginationCall ==
    /\ last.op = "args"
    /\ last' = [op |-> "CalculatePagination", total |-> last.total,
                perPage |-> last.perPage,
                totalPages |-> CalculatePagination(last.total, Small(1),
                                                   last.perPage)]
    /\ UNCHANGED <<users, nextID, procs, plain, delCount, purged>>

(* ----------------------- user handler: ListUsers ----------------------- *)

\* a query-string parameter: absent, a decimal int, or other text
Absent == [form |-> "absent", n |-> Small(0)]
NotANumber == [form |-> "text", n |-> Small(0)]
Decimal(n) == [form |-> "int", n |-> n]

\* strconv.Atoi
Atoi(param) ==
    IF param.form = "int"
    THEN [n |-> param.n, err |-> NoErr]
    ELSE [n |-> Small(0), err |-> "invalid syntax"]

\* strconv.ParseBool
ParseBool(str) ==
    IF str \in {"1", "t", "T", "TRUE", "true", "True"}
    THEN [b |-> TRUE, err |-> NoErr]
    ELSE IF str \in {"0", "f", "F", "FALSE", "false", "False"}
    THEN [b |-> FALSE, err |-> NoErr]
    ELSE [b |-> FALSE, err |-> "invalid syntax"]

\* ListUsers's parsing of per_page
ParsePerPage(param) ==
    IF /\ param.form # "absent"
       /\ Atoi(param).err = NoErr
       /\ IsPositive(Atoi(param).n)
       /\ Atoi(param).n.hi = 0
       /\ Atoi(param).n.lo <= 100
    THEN Atoi(param).n.lo
    ELSE 10

\* ListUsers's parsing of page
ParsePage(param) ==
    IF /\ param.form # "absent"
       /\ Atoi(param).err = NoErr
       /\ IsPositive(Atoi(param).n)
    THEN Atoi(param).n
    ELSE Small(1)

\* the ListUsersQuery the handler builds; search_by, role, provider and
\* verified stay at their zero values
ParseListUsersQuery(req) ==
    [ Page        |-> ParsePage(req.page),
      PerPage     |-> ParsePerPage(req.per_page),
      Search      |-> req.search,
      SearchBy    |-> "",
      Role        |-> "",
      Provider    |-> "",
      Verified    |-> {},
      ShowDeleted |-> IF req.show_deleted # ""
                         /\ ParseBool(req.show_deleted).err = NoErr
                      THEN ParseBool(req.show_deleted).b ELSE FALSE ]

\* Handler.ListUsers: the UserListResponse it sends
ListUsersResponse(rows, req) ==
    LET query == ParseListUsersQuery(req)
        res == GetUsersResult(rows, query)
    IN  [ Items      |-> res.users,
          Total      |-> res.total,
          Page       |-> query.Page,
          PerPage    |-> query.PerPage,
          TotalPages |-> CalculatePagination(res.total, query.Page,
                                             query.PerPage) ]

ListUsers(req) ==
    LET res == ListUsersResponse(users, req) IN
    /\ last' = [op |-> "ListUsers", req |-> req,
                count |-> Len(res.Items), total |-> res.Total,
                page |-> res.Page, perPage |-> res.PerPage,
                totalPages |-> res.TotalPages]
    /\ UNCHANGED <<users, nextID, procs, plain, delCount, purged>>

(* ------------------ the handlers' handleServiceError ------------------- *)

\* the responses of package response: the status code by its fiber name,
\* the "status" field and the message
Response(code, status, message) ==
    [code |-> code, status |-> status, message |-> message]

\* user Handler.handleServiceError: the response for a service error text
UserHandleServiceError(errorMessage) ==
    IF errorMessage \in {ErrEmailExists, ErrEmailTaken}
    THEN Response("StatusConflict", "fail", errorMessage)
    ELSE IF errorMessage \in {ErrNameRequired, ErrEmailRequired,
                              ErrPasswordRequired, ErrPasswordTooShort}
    THEN Response("StatusBadRequest", "fail", errorMessage)
    ELSE IF errorMessage = ErrInvalidID
    THEN Response("StatusBadRequest", "fail", errorMessage)
    ELSE IF errorMessage = ErrUserNotFound
    THEN Response("StatusNotFound", "fail", errorMessage)
    ELSE IF errorMessage = ErrNotDeleted
    THEN Response("StatusBadRequest", "fail", errorMessage)
    ELSE Response("StatusInternalServerError", "error",
                  "Internal server error")

\* auth Handler.handleServiceError: the response for a service error text
AuthHandleServiceError(errorMessage) ==
    IF errorMessage = ErrEmailExists
    THEN Response("StatusConflict", "fail", errorMessage)
    ELSE IF errorMessage \in {ErrPasswordMismatch, ErrNameRequired,
                              ErrEmailRequired, ErrPasswordRequired,
                              ErrPasswordTooShort}
    THEN Response("StatusBadRequest", "fail", errorMessage)
    ELSE IF errorMessage = ErrInvalidCredentials
    THEN Response("StatusBadRequest", "fail", errorMessage)
    ELSE IF errorMessage = ErrUserNotFound
    THEN Response("StatusNotFound", "fail", errorMessage)
    ELSE Response("StatusBadGateway", "fail", errorMessage)

(* ------------- user handler: ListUsers and its goroutine --------------- *)

\* service.GetUsers when the store answers, and when it fails the count or
\* the select with the given error
GetUsersResultOnFailure(rows, query, failure) ==
    IF failure = <<>>
    THEN GetUsersResult(rows, query)
    ELSE [users |-> <<>>, total |-> 0, err |-> Join(failure)]

\* the zero value of the handler's result struct, which a receive from a
\* closed, empty channel yields
ZeroResult == [users |-> <<>>, total |-> 0, totalPages |-> 0, err |-> NoErr]

\* a goroutine that returns on an error without sending it
GoroutineSends_NothingOnError(query, got) ==
    IF got.err # NoErr
    THEN <<>>
    ELSE << [users |-> got.users, total |-> got.total,
             totalPages |-> CalculatePagination(got.total, query.Page,
                                                query.PerPage),
             err |-> NoErr] >>

\* the values the goroutine sends on resultChan, in order, for what
\* GetUsers returned
GoroutineSends(query, got) ==
    IF got.err # NoErr
    THEN << [ZeroResult EXCEPT !.err = got.err] >>
    ELSE << [users |-> got.users, total |-> got.total,
             totalPages |-> CalculatePagination(got.total, query.Page,
                                                query.PerPage),
             err |-> NoErr] >>

\* what the handler answers for the result it received
ListUsersAnswer(query, res) ==
    IF res.err # NoErr
    THEN [ok |-> FALSE, body |-> UserHandleServiceError(res.err)]
    ELSE [ok |-> TRUE,
          body |-> [ Items      |-> res.users,
                     Total      |-> res.total,
                     Page       |-> query.Page,
                     PerPage    |-> query.PerPage,
                     TotalPages |-> res.totalPages ]]

\* the handler parses the request, makes the channel and starts the
\* goroutine; a worker serves one request at a time
ListUsersStart(p, req) ==
    /\ \/ procs[p].pc = "idle"
       \/ procs[p].pc = "responded" /\ procs[p].go = "done"
    /\ procs' = [procs EXCEPT ![p] =
                    [ pc |-> "receive", id |-> MalformedID, go |-> "fetch",
                      req |-> req, query |-> ParseListUsersQuery(req),
                      chan |-> <<>>, closed |-> FALSE, sending |-> <<>>,
                      sent |-> 0, failure |-> <<>>, read |-> {} ]]
    /\ last' = [op |-> "ListUsersRequest", step |-> "start"]
    /\ UNCHANGED <<users, nextID, plain, delCount, purged>>

\* the goroutine calls GetUsers and CalculatePagination; read and failure
\* are history: the table the call read and the failure it met
GoGetUsers(p, failure) ==
    /\ procs[p].pc \in {"receive", "responded"}
    /\ procs[p].go = "fetch"
    /\ procs' = [procs EXCEPT ![p] =
                    [procs[p] EXCEPT
                        !.go = "send",
                        !.sending = GoroutineSends(procs[p].query,
                            GetUsersResultOnFailure(users, procs[p].query,
                                                    failure)),
                        !.failure = failure,
                        !.read = users]]
    /\ last' = [op |-> "ListUsersRequest", step |-> "fetch"]
    /\ UNCHANGED <<users, nextID, plain, delCount, purged>>

\* the goroutine sends on resultChan, which holds one value: the send waits
\* while the channel is full; with nothing left to send the goroutine
\* returns
GoSend(p) ==
    /\ procs[p].pc \in {"receive", "responded"}
    /\ procs[p].go = "send"
    /\ procs[p].sending # <<>> => Len(procs[p].chan) < 1
    /\ procs' = [procs EXCEPT ![p] =
                    IF procs[p].sending = <<>>
                    THEN [procs[p] EXCEPT !.go = "close"]
                    ELSE [procs[p] EXCEPT
                            !.chan = Append(@, Head(procs[p].sending)),
                            !.sending = Tail(@),
                            !.sent = @ + 1,
                            !.go = IF Tail(procs[p].sending) = <<>>
                                   THEN "close" ELSE "send"]]
    /\ last' = [op |-> "ListUsersRequest", step |-> "send"]
    /\ UNCHANGED <<users, nextID, plain, delCount, purged>>

\* the deferred close(resultChan)
GoClose(p) ==
    /\ procs[p].pc \in {"receive", "responded"}
    /\ procs[p].go = "close"
    /\ procs' = [procs EXCEPT ![p] =
                    [procs[p] EXCEPT !.closed = TRUE, !.go = "done"]]
    /\ last' = [op |-> "ListUsersRequest", step |-> "close"]
    /\ UNCHANGED <<users, nextID, plain, delCount, purged>>

\* res := <-resultChan and the response: the receive waits while the
\* channel is empty and open, and yields the zero value when it is empty
\* and closed
ListUsersReceive(p) ==
    LET call == procs[p]
        res == IF call.chan # <<>> THEN Head(call.chan) ELSE ZeroResult
    IN
    /\ call.pc = "receive"
    /\ call.chan # <<>> \/ call.closed
    /\ procs' = [procs EXCEPT ![p] =
                    [call EXCEPT !.pc = "responded",
                                 !.chan = IF @ # <<>> THEN Tail(@) ELSE @]]
    /\ last' = [op |-> "ListUsersRequest", step |-> "respond",
                req |-> call.req,
                answer |-> ListUsersAnswer(call.query, res),
                zero |-> call.chan = <<>>,
                failure |-> call.failure,
                read |-> call.read]
    /\ UNCHANGED <<users, nextID, plain, delCount, purged>>

(* --------------------- user handler: GetUserStats ---------------------- *)

\* ListUsersQuery{Page: 1, PerPage: 1} with the given Role and Verified
StatsQuery(role, verified) ==
    [ Role |-> role, Provider |-> "", Verified |-> verified,
      Search |-> <<>>, SearchBy |-> "", Page |-> Small(1), PerPage |-> 1,
      ShowDeleted |-> FALSE ]

\* the stats map of the response
StatsMap(total, totalVerified, totalAdmins) ==
    [ total_users      |-> total,
      verified_users   |-> totalVerified,
      admin_users      |-> totalAdmins,
      regular_users    |-> total - totalAdmins,
      unverified_users |-> total - totalVerified ]

\* the first call of GetUsers: the total
GetUserStatsTotal(p) ==
    /\ procs[p].pc = "idle"
    /\ procs' = [procs EXCEPT ![p] =
                    [ pc |-> "counted total", id |-> MalformedID,
                      total |-> GetUsersResult(users,
                                               StatsQuery("", {})).total ]]
    /\ last' = [op |-> "GetUserStats", step |-> "total"]
    /\ UNCHANGED <<users, nextID, plain, delCount, purged>>

\* the second call: the verified accounts
GetUserStatsVerified(p) ==
    /\ procs[p].pc = "counted total"
    /\ procs' = [procs EXCEPT ![p] =
                    [ pc |-> "counted verified", id |-> MalformedID,
                      total |-> procs[p].total,
                      totalVerified |-> GetUsersResult(users,
                                            StatsQuery("", {TRUE})).total ]]
    /\ last' = [op |-> "GetUserStats", step |-> "verified"]
    /\ UNCHANGED <<users, nextID, plain, delCount, purged>>

\* the third call, the administrators, and the response
GetUserStatsAdmins(p) ==
    /\ procs[p].pc = "counted verified"
    /\ procs' = [procs EXCEPT ![p] = Idle]
    /\ last' = [op |-> "GetUserStats", step |-> "respond",
                stats |-> StatsMap(procs[p].total, procs[p].totalVerified,
                                   GetUsersResult(users,
                                        StatsQuery("admin", {})).total)]
    /\ UNCHANGED <<users, nextID, plain, delCount, purged>>

(* --------------------- failures the services meet ---------------------- *)

\* the error texts of a store that cannot be reached and of a statement
\* that ran out of time
StoreFailures ==
    { <<"dial", "tcp", "connection", "refused">>,
      <<"context", "deadline", "exceeded">> }

\* service.SignUp when the store fails the INSERT with the given error:
\* the validation and the confirmation check come before the store is asked
SignUpResultOnFailure(rows, data, id, salt, now, failure) ==
    IF validateSignUpData(data) # NoErr \/ ~PasswordsMatch(data)
    THEN SignUpResult(rows, data, id, salt, now)
    ELSE [user |-> {}, err |-> SignUpCreateError(failure), rows |-> rows]

\* service.GetUserByID of the user service when the store fails the SELECT
\* with the given error, which is not gorm.ErrRecordNotFound
GetUserByIDResultOnFailure(rows, id, failure) ==
    IF UuidParse(id).err # NoErr
    THEN [user |-> {}, err |-> ErrInvalidID]
    ELSE [user |-> {}, err |-> Join(failure)]

\* authRepository.GetUserByID: WHERE id = ? ORDER BY id LIMIT 1 on
\* user.User
AuthRepoGetUserByID(rows, id) ==
    LET found == {r \in rows : r.ID = UuidParse(id).uuid} IN
    IF found = {}
    THEN [user |-> {}, err |-> ErrRecordNotFound]
    ELSE [user |-> {CHOOSE r \in found : TRUE}, err |-> NoErr]

\* auth service.GetUserByID: what the repository returned
AuthGetUserByIDResult(rows, id) == AuthRepoGetUserByID(rows, id)

\* auth Handler.SignUpUser, the store failing the INSERT
SignUpUserOnFailure(data, salt, failure) ==
    LET res == SignUpResultOnFailure(users, data, nextID, salt, TimeNow,
                                     failure)
        sent == AuthHandleServiceError(res.err)
    IN
    /\ last' = [op |-> "SignUpUser", boundary |-> "auth", err |-> res.err,
                code |-> sent.code, message |-> sent.message]
    /\ UNCHANGED <<users, nextID, procs, plain, delCount, purged>>

\* auth Handler.GetMe for the id the token of a signed-in account names
GetMe(id) ==
    LET res == AuthGetUserByIDResult(users, id)
        sent == IF res.err # NoErr THEN AuthHandleServiceError(res.err)
                ELSE Response("StatusOK", "success", "")
    IN
    /\ id.form = "canonical"
    /\ id.uuid < nextID
    /\ last' = [op |-> "GetMe", boundary |-> "auth", err |-> res.err,
                code |-> sent.code, message |-> sent.message]
    /\ UNCHANGED <<users, nextID, procs, plain, delCount, purged>>

\* user Handler.GetUserByID, the store failing the SELECT
GetUserByIDOnFailure(id, failure) ==
    LET res == GetUserByIDResultOnFailure(users, id, failure)
        sent == UserHandleServiceError(res.err)
    IN
    /\ last' = [op |-> "GetUserByID", boundary |-> "user", err |-> res.err,
                code |-> sent.code, message |-> sent.message]
    /\ UNCHANGED <<users, nextID, procs, plain, delCount, purged>>

\* the error of a random source that cannot be read
PrimitiveFailures == { <<"unexpected", "EOF">> }

\* service.SignIn when hashing.GenerateToken fails with the given error:
\* the look-up and the password check come first
SignInResultOnFailure(rows, email, password, failure) ==
    IF SignInResult(rows, email, password).err # NoErr
    THEN SignInResult(rows, email, password)
    ELSE [token |-> "", user |-> {},
          err |-> "failed to generate token: " \o Join(failure)]

\* auth Handler.SignInUser, the token generation failing
SignInUserOnFailure(email, password, failure) ==
    LET res == SignInResultOnFailure(users, email, password, failure)
        sent == AuthHandleServiceError(res.err)
    IN
    /\ last' = [op |-> "SignInUser", boundary |-> "auth", err |-> res.err,
                code |-> sent.code, message |-> sent.message]
    /\ UNCHANGED <<users, nextID, procs, plain, delCount, purged>>

(* --------------------------- specifications --------------------------- *)

Init ==
    /\ users = {}
    /\ nextID = 1
    /\ procs = [p \in Procs |-> Idle]
    /\ last = [op |-> "none"]
    /\ plain = [i \in UUIDs |-> <<>>]
    /\ delCount = [i \in UUIDs |-> 0]
    /\ purged = {}

\* the service calls, one at a time
Next ==
    \/ \E data \in SignUpData, salt \in Salts :
            SignUp(data, salt, TimeNow)
    \/ \E email \in EmailInputs, password \in PasswordInputs :
            SignIn(email, password)
    \/ \E id \in IdInputs : GetUserByID(id)
    \/ \E id \in IdInputs : DeleteUser(id)

Spec == Init /\ [][Next]_vars

\* registrations that pass validation and the password confirmation
ValidSignUpData ==
    {d \in SignUpData :
        validateSignUpData(d) = NoErr /\ PasswordsMatch(d)}

\* registrations, and DeleteUser calls whose round trips interleave
NextConcurrent ==
    \/ \E data \in ValidSignUpData, salt \in Salts :
            SignUp(data, salt, TimeNow)
    \/ \E p \in Procs, id \in IdInputs : DeleteUserCheck(p, id)
    \/ \E p \in Procs : DeleteUserDelete(p)

SpecConcurrent == Init /\ [][NextConcurrent]_vars

\* the registrations the account-management specifications start from
AdminSignUpData ==
    {d \in ValidSignUpData :
        /\ d.Email \in { <<"a">>, <<"b">> }
        /\ d.Password = GoodPassword
        /\ d.Photo = ""}

\* the user service's calls that write, one at a time
NextUsers ==
    \/ \E data \in AdminSignUpData, salt \in Salts :
            SignUp(data, salt, TimeNow)
    \/ \E id \in IdInputs, data \in UpdateUserData :
            UpdateUser(id, data, TimeNow)
    \/ \E id \in IdInputs : DeleteUser(id)
    \/ \E id \in IdInputs : RestoreUser(id)
    \/ \E id \in IdInputs : HardDeleteUser(id)

SpecUsers == Init /\ [][NextUsers]_vars

\* page numbers: none, the first three, and 2^62 + 1
BigPage == Word(16, 1)
PageInputs == {Small(-1), Small(0), Small(1), Small(2), Small(3), BigPage}
PerPageInputs == {-1, 0, 1, 2, 4, 100, 101}
SearchInputs == { <<>>, <<"a">>, <<"B">>, <<"_">> }
SearchByInputs == {"", "name", "email", "role"}

\* the queries GetUsers is called with
GetUsersInputs ==
    {[NoFilter EXCEPT !.Page = p, !.PerPage = n] :
        p \in {Small(0), Small(1), Small(2), BigPage}, n \in {0, 1, 4, 101}}
    \cup {[NoFilter EXCEPT !.Search = t, !.SearchBy = f] :
            t \in { <<"a">>, <<"_">> }, f \in {"name", "email", "role"}}
    \cup {[NoFilter EXCEPT !.Role = "admin"],
          [NoFilter EXCEPT !.Provider = "local"],
          [NoFilter EXCEPT !.Verified = {TRUE}],
          [NoFilter EXCEPT !.ShowDeleted = TRUE]}

\* the requests ListUsers is called with
ListUsersInputs ==
    [ page : {Absent, NotANumber, Decimal(Small(0)), Decimal(Small(2)),
              Decimal(BigPage)},
      per_page : {Absent, Decimal(Small(1)), Decimal(Small(101))},
      search : { <<>> },
      show_deleted : {"", "true"} ]

\* the update that makes an account an administrator called Bob
ListUpdateData ==
    {d \in UpdateUserData :
        /\ d.Name = "Bob"
        /\ d.Email = <<"c">>
        /\ d.Role = "admin"
        /\ d.Photo = ""
        /\ ~d.Verified}

\* listings of a table that registrations, updates and deletes change
NextList ==
    \/ \E data \in AdminSignUpData, salt \in Salts :
            SignUp(data, salt, TimeNow)
    \/ \E id \in IdInputs, data \in ListUpdateData :
            UpdateUser(id, data, TimeNow)
    \/ \E id \in IdInputs : DeleteUser(id)
    \/ \E query \in GetUsersInputs : GetUsers(query)
    \/ \E req \in ListUsersInputs : ListUsers(req)

SpecList == Init /\ [][NextList]_vars

\* the largest total CalculatePagination is called with
MaxTotal == 25

\* the arguments of one call of CalculatePagination
InitPagination ==
    /\ users = {}
    /\ nextID = 1
    /\ procs = [p \in Procs |-> Idle]
    /\ last \in [op : {"args"}, total : 0..MaxTotal, perPage : -1..101]
    /\ plain = [i \in UUIDs |-> <<>>]
    /\ delCount = [i \in UUIDs |-> 0]
    /\ purged = {}

\* the page count of drawn totals and of the listings of a table
NextPagination ==
    \/ CalculatePaginationCall
    \/ \E data \in AdminSignUpData, salt \in Salts :
            SignUp(data, salt, TimeNow)
    \/ \E req \in ListUsersInputs : ListUsers(req)

SpecPagination == InitPagination /\ [][NextPagination]_vars

\* the administrative creations the account specifications run: an email
\* as registrations store it and one with a capital letter and spaces
AccountCreateData ==
    [ Name : {"Ann"}, Email : { <<"a">>, <<" ", "A", " ">> },
      Password : {GoodPassword}, Role : {""}, Provider : {"", "google"},
      Photo : {""}, Verified : {TRUE} ]

\* the sign-ins the account specifications run
AccountSignInEmails == { <<"a">>, <<"b">> }

\* every call that creates, changes or removes an account, and sign-in, one
\* at a time
NextAccounts ==
    \/ \E data \in AdminSignUpData, salt \in Salts :
            SignUp(data, salt, TimeNow)
    \/ \E data \in AccountCreateData : CreateUser(data, TimeNow)
    \/ \E id \in IdInputs, data \in ListUpdateData :
            UpdateUser(id, data, TimeNow)
    \/ \E id \in IdInputs : DeleteUser(id)
    \/ \E id \in IdInputs : RestoreUser(id)
    \/ \E id \in IdInputs : HardDeleteUser(id)
    \/ \E email \in AccountSignInEmails : SignIn(email, GoodPassword)

SpecAccounts == Init /\ [][NextAccounts]_vars

\* the administrative creations with the default origin
UniqueCreateData == {d \in AccountCreateData : d.Provider = ""}

\* every call that adds a row, changes a row or removes a row, one at a
\* time
NextUnique ==
    \/ \E data \in AdminSignUpData, salt \in Salts :
            SignUp(data, salt, TimeNow)
    \/ \E data \in UniqueCreateData : CreateUser(data, TimeNow)
    \/ \E id \in IdInputs, data \in ListUpdateData :
            UpdateUser(id, data, TimeNow)
    \/ \E id \in IdInputs : DeleteUser(id)
    \/ \E id \in IdInputs : HardDeleteUser(id)

SpecUnique == Init /\ [][NextUnique]_vars

\* the administrative creations that run side by side: two emails, each
\* also the email of a registration
ConcurrentCreateData ==
    [ Name : {"Ann"}, Email : { <<"a">>, <<"b">> },
      Password : {GoodPassword}, Role : {""}, Provider : {""},
      Photo : {""}, Verified : {FALSE, TRUE} ]

\* registrations, each one INSERT, and CreateUser calls whose look-up and
\* insert interleave with them and with each other
NextCreateConcurrent ==
    \/ \E data \in AdminSignUpData, salt \in Salts :
            SignUp(data, salt, TimeNow)
    \/ \E p \in Procs, data \in ConcurrentCreateData :
            CreateUserCheck(p, data)
    \/ \E p \in Procs : CreateUserInsert(p, TimeNow)

SpecCreateConcurrent == Init /\ [][NextCreateConcurrent]_vars

\* requests that meet a failing store or primitive, and the current-account
\* look-up, over a table that registrations and deletes change
NextErrors ==
    \/ \E data \in AdminSignUpData, salt \in Salts :
            SignUp(data, salt, TimeNow)
    \/ \E id \in IdInputs : DeleteUser(id)
    \/ \E data \in SignUpData, salt \in Salts, failure \in StoreFailures :
            SignUpUserOnFailure(data, salt, failure)
    \/ \E email \in AccountSignInEmails, password \in PasswordInputs,
          failure \in PrimitiveFailures :
            SignInUserOnFailure(email, password, failure)
    \/ \E id \in IdInputs : GetMe(id)
    \/ \E id \in IdInputs, failure \in StoreFailures :
            GetUserByIDOnFailure(id, failure)

SpecErrors == Init /\ [][NextErrors]_vars

\* the requests and the store failures the goroutine's call meets
GoroutineRequests ==
    [ page : {Absent, Decimal(Small(2))},
      per_page : {Absent, Decimal(Small(1))},
      search : { <<>> },
      show_deleted : {""} ]
GoroutineFailures == { <<>>, <<"context", "deadline", "exceeded">> }

\* the worker that serves the ListUsers request
Worker == CHOOSE p \in Procs : \A q \in Procs : p <= q

\* one ListUsers request at a time, the handler and its goroutine step by
\* step, while registrations and updates change the table
NextListUsers ==
    \/ \E data \in AdminSignUpData, salt \in Salts :
            SignUp(data, salt, TimeNow)
    \/ \E id \in IdInputs, data \in ListUpdateData :
            UpdateUser(id, data, TimeNow)
    \/ \E req \in GoroutineRequests : ListUsersStart(Worker, req)
    \/ \E failure \in GoroutineFailures : GoGetUsers(Worker, failure)
    \/ GoSend(Worker)
    \/ GoClose(Worker)
    \/ ListUsersReceive(Worker)

\* the Go scheduler runs a goroutine that can run: the goroutine's send
\* and close and the handler's receive are not put off for ever.  Nothing
\* says when the store answers the call of GetUsers
SpecListUsers ==
    /\ Init
    /\ [][NextListUsers]_vars
    /\ WF_vars(GoSend(Worker))
    /\ WF_vars(GoClose(Worker))
    /\ WF_vars(ListUsersReceive(Worker))

\* the creations of verified accounts that run beside the statistics
StatsCreateData == {d \in ConcurrentCreateData : d.Verified}

\* one GetUserStats request, call by call, while registrations, creations,
\* updates and removals run between its calls
NextStats ==
    \/ \E data \in AdminSignUpData, salt \in Salts :
            SignUp(data, salt, TimeNow)
    \/ \E p \in Procs \ {Worker}, data \in StatsCreateData :
            CreateUserCheck(p, data)
    \/ \E p \in Procs \ {Worker} : CreateUserInsert(p, TimeNow)
    \/ \E id \in IdInputs, data \in ListUpdateData :
            UpdateUser(id, data, TimeNow)
    \/ \E id \in IdInputs : HardDeleteUser(id)
    \/ GetUserStatsTotal(Worker)
    \/ GetUserStatsVerified(Worker)
    \/ GetUserStatsAdmins(Worker)

SpecStats == Init /\ [][NextStats]_vars

(* ------------------------------- claims ------------------------------- *)

\* what each service call returns in the current state
SignUpNow(data, salt) == SignUpResult(users, data, nextID, salt, TimeNow)
SignInNow(email, password) == SignInResult(users, email, password)
GetUserByIDNow(id) == GetUserByIDResult(users, id)

\* name, email and password of a registration are present and the password
\* is long enough
FieldsValid(data) ==
    /\ data.Name # ""
    /\ data.Email # <<>>
    /\ Len(data.Password) >= 8

\* the accounts holding an email
Holders(rows, email) == {u \in rows : u.Email = email}

\* an email with no capital letter and no white space at either end
IsNormalized(email) ==
    /\ \A i \in 1..Len(email) : email[i] \notin {"A", "B"}
    /\ email # <<>> =>
            /\ email[1] \notin {" ", "\t", "\n"}
            /\ email[Len(email)] \notin {" ", "\t", "\n"}

ValidationErrors ==
    {ErrNameRequired, ErrEmailRequired, ErrPasswordRequired,
     ErrPasswordTooShort}

\* C1: a registration with an empty name, an empty email, an empty password
\* or a password of fewer than 8 characters fails with the error of the
\* first of these checks that it fails, in the order name, email, password
\* presence, password length; it returns no account and leaves the table
\* as it was.
C1_ValidationErrors ==
    /\ \A data \in SignUpData, salt \in Salts :
        LET res == SignUpNow(data, salt) IN
        /\ data.Name = "" => res.err = ErrNameRequired
        /\ data.Name # "" /\ data.Email = <<>> => res.err = ErrEmailRequired
        /\ data.Name # "" /\ data.Email # <<>> /\ data.Password = <<>>
                => res.err = ErrPasswordRequired
        /\ (data.Name # "" /\ data.Email # <<>> /\ data.Password # <<>>
                /\ Len(data.Password) < 8)
                => res.err = ErrPasswordTooShort
        /\ ~FieldsValid(data) => res.user = {} /\ res.rows = users
    /\ last.op = "SignUp" /\ last.err \in ValidationErrors => last.user = {}

\* C1 witness: a registration was just refused for its 7-character
\* password while an account is stored.
C1_Witness ==
    /\ last.op = "SignUp"
    /\ last.err = ErrPasswordTooShort
    /\ users # {}

\* C2: a registration whose fields pass validation but whose password
\* differs from its confirmation fails with "passwords do not match",
\* returns no account and leaves the table as it was.
C2_PasswordMismatch ==
    /\ \A data \in SignUpData, salt \in Salts :
        LET res == SignUpNow(data, salt) IN
        FieldsValid(data) /\ data.Password # data.PasswordConfirm
            => /\ res.err = ErrPasswordMismatch
               /\ res.user = {}
               /\ res.rows = users
    /\ last.op = "SignUp" /\ last.err = ErrPasswordMismatch
            => last.user = {}

\* C2 witness: a registration was just refused for its confirmation.
C2_Witness ==
    /\ last.op = "SignUp"
    /\ last.err = ErrPasswordMismatch
    /\ last.user = {}

\* C3: a valid registration whose normalized email is the email of a stored
\* account fails with "user with that email already exists", returns no
\* account, and the table still holds exactly one account with that email.
C3_DuplicateEmail ==
    /\ \A data \in SignUpData, salt \in Salts :
        LET res == SignUpNow(data, salt)
            email == NormalizeEmail(data.Email)
        IN
        (FieldsValid(data)
            /\ data.Password = data.PasswordConfirm
            /\ Holders(users, email) # {})
            => /\ res.err = ErrEmailExists
               /\ res.user = {}
               /\ res.rows = users
               /\ Cardinality(Holders(res.rows, email)) = 1
    /\ last.op = "SignUp" /\ last.err = ErrEmailExists => last.user = {}

\* C3 witness: a registration was just refused as a duplicate.
C3_Witness ==
    /\ last.op = "SignUp"
    /\ last.err = ErrEmailExists
    /\ users # {}

\* C4: a successful registration returns and stores one new account, whose
\* name is the submitted name, whose email is the submitted email trimmed
\* and lower-cased, whose role is "user", origin "local", verified flag
\* false, avatar the submitted avatar or "default.png" when none was given,
\* and whose creation and last-update timestamps are equal.
C4_CreatedAccount ==
    /\ \A data \in SignUpData, salt \in Salts :
        LET res == SignUpNow(data, salt) IN
        res.err = NoErr =>
            /\ Cardinality(res.user) = 1
            /\ \A u \in res.user :
                /\ u \notin users
                /\ res.rows = users \cup {u}
                /\ u.Name = data.Name
                /\ u.Email = NormalizeEmail(data.Email)
                /\ IsNormalized(u.Email)
                /\ u.Role = "user"
                /\ u.Provider = "local"
                /\ u.Verified = FALSE
                /\ u.Photo = IF data.Photo = "" THEN "default.png"
                             ELSE data.Photo
                /\ u.CreatedAt = u.UpdatedAt
    /\ NormalizeEmail(<<" ", "A", " ">>) = <<"a">>
    /\ last.op = "SignUp" /\ last.err = NoErr
            => last.user # {} /\ last.user \subseteq users

\* C4 witness: a registration just succeeded with no avatar given.
C4_Witness ==
    /\ last.op = "SignUp"
    /\ last.err = NoErr
    /\ \E u \in last.user : u \in users /\ u.Photo = "default.png"

\* C5: the password stored on the account a successful registration creates
\* is the output of the hash primitive for the submitted password and is
\* not the submitted password.
C5_StoredDigest ==
    /\ \A data \in SignUpData, salt \in Salts :
        LET res == SignUpNow(data, salt) IN
        res.err = NoErr =>
            \A u \in res.user :
                /\ u.Password = HashPassword(data.Password, salt)
                /\ u.Password # data.Password
    /\ last.op = "SignUp" /\ last.err = NoErr =>
            \A u \in last.user :
                /\ u.Password # plain[u.ID]
                /\ \E salt \in Salts :
                        u.Password = HashPassword(plain[u.ID], salt)

\* C5 witness: a registration just succeeded and its account is stored.
C5_Witness ==
    /\ last.op = "SignUp"
    /\ last.err = NoErr
    /\ \E u \in last.user : plain[u.ID] = OtherPassword

\* no stored account has the email
UnknownEmail(email) == Holders(users, NormalizeEmail(email)) = {}

\* an account has the email and the password does not verify against it
WrongPassword(email, password) ==
    \E u \in Holders(users, NormalizeEmail(email)) :
        ~VerifyPassword(u.Password, password)

InvalidCredentials ==
    [token |-> "", user |-> {}, err |-> ErrInvalidCredentials]

\* C6: sign-in returns one and the same outcome, an empty token, no account
\* and the error "invalid email or password", when no account has the
\* email and when the account exists but the password does not verify.
C6_SameFailure ==
    /\ \A e1 \in EmailInputs, e2 \in EmailInputs,
          p1 \in PasswordInputs, p2 \in PasswordInputs :
        UnknownEmail(e1) /\ WrongPassword(e2, p2)
            => /\ SignInNow(e1, p1) = SignInNow(e2, p2)
               /\ SignInNow(e1, p1) = InvalidCredentials
    /\ \A e \in EmailInputs, p \in PasswordInputs :
        UnknownEmail(e) \/ WrongPassword(e, p)
            => SignInNow(e, p) = InvalidCredentials
    /\ last.op = "SignIn" /\ last.err # NoErr
            => /\ last.token = ""
               /\ last.user = {}
               /\ last.err = ErrInvalidCredentials

\* C6 witness: a sign-in with a wrong password of valid length was just
\* refused while another email of the input set is unknown.
C6_Witness ==
    /\ last.op = "SignIn"
    /\ last.err = ErrInvalidCredentials
    /\ WrongPassword(last.email, last.password)
    /\ Len(last.password) >= 8
    /\ \E e \in EmailInputs : e # <<>> /\ UnknownEmail(e)

\* C7: while a registered account is stored, sign-in with its registration
\* password and any email that is its email after trim and lower-case
\* succeeds and returns a non-empty token and that account.
C7_RoundTrip ==
    /\ \A u \in users, e \in EmailInputs :
        plain[u.ID] # <<>> /\ NormalizeEmail(e) = u.Email
            => /\ SignInNow(e, plain[u.ID]).err = NoErr
               /\ SignInNow(e, plain[u.ID]).token # ""
               /\ SignInNow(e, plain[u.ID]).user = {u}
    /\ last.op = "SignIn" /\ last.err = NoErr
            => /\ last.token # ""
               /\ \E u \in users :
                    /\ last.user = {u}
                    /\ u.Email = NormalizeEmail(last.email)
                    /\ plain[u.ID] = last.password

\* C7 witness: a sign-in typed with capitals and spaces just succeeded.
C7_Witness ==
    /\ last.op = "SignIn"
    /\ last.err = NoErr
    /\ last.email = <<" ", "A", " ">>
    /\ \E u \in last.user : u.Email = <<"a">>

\* the identifiers of accounts whose DeleteUser succeeded (no restore since)
SoftDeleted == {i \in UUIDs : delCount[i] >= 1}

\* C8: lookup by id fails with the invalid-id error for an id that is no
\* UUID, whatever the table holds; fails with "user not found" when no
\* account has the id or the account was soft-deleted; otherwise returns
\* the active account with that id.
C8_Lookup ==
    /\ \A id \in IdInputs :
        LET res == GetUserByIDNow(id)
            active == {u \in users : u.ID = id.uuid /\ u.DeletedAt = NULL}
        IN
        /\ id.form = "malformed"
            => /\ res = [user |-> {}, err |-> ErrInvalidID]
               /\ GetUserByIDResult({}, id) = res
        /\ id.form # "malformed" /\ active = {}
            => res = [user |-> {}, err |-> ErrUserNotFound]
        /\ id.form # "malformed" /\ active # {}
            => /\ res.err = NoErr
               /\ res.user = {toDomain(u) : u \in active}
               /\ Cardinality(res.user) = 1
    /\ \A i \in SoftDeleted :
            GetUserByIDNow(IdText(i)).err = ErrUserNotFound
    /\ last.op = "GetUserByID" => last.err = GetUserByIDNow(last.id).err

\* C8 witness: a lookup just returned one of two stored accounts.
C8_Witness ==
    /\ last.op = "GetUserByID"
    /\ last.err = NoErr
    /\ \E u \in users : last.user = {toDomain(u)}
    /\ Cardinality(users) = 2

\* C9: after a successful soft delete of an account, the default lookup of
\* its id fails with "user not found" while the include-deleted lookup
\* still returns the account, with a deletion timestamp that is not null.
C9_SoftDeleteKeepsRow ==
    \A i \in SoftDeleted :
        /\ GetUserByIDNow(IdText(i)).err = ErrUserNotFound
        /\ LET got == UserRepoGetUserByID(users, IdText(i), TRUE) IN
            /\ got.err = NoErr
            /\ \A u \in got.user : u.ID = i /\ u.DeletedAt # NULL

\* the account a completed DeleteUser call named
LastUUID == UuidParse(last.id).uuid

\* C10: of any number of DeleteUser calls on one account that was active,
\* run one after the other or with their existence checks and deletes
\* interleaved, exactly one succeeds and every other one fails with "user
\* not found"; the failing calls change nothing.
C10_Returns ==
    /\ \A i \in UUIDs : delCount[i] <= 1
    /\ (last.op = "DeleteUser" /\ last.done /\ last.id.form # "malformed"
            /\ LastUUID < nextID)
        => /\ last.err \in {NoErr, ErrUserNotFound}
           /\ delCount[LastUUID] = 1
           /\ \A u \in users : u.ID # LastUUID

C10_FailureChangesNothing ==
    (last'.op = "DeleteUser" /\ last'.err # NoErr) => users' = users

C10_OneDeleteSucceeds ==
    []C10_Returns /\ [][C10_FailureChangesNothing]_vars

\* C10 witness: two calls passed the existence check of the same account;
\* one deleted it and the other was just answered "user not found" by its
\* delete step.
C10_Witness ==
    /\ last.op = "DeleteUser"
    /\ last.step = "delete"
    /\ last.err = ErrUserNotFound
    /\ delCount[LastUUID] = 1

\* what the user service's calls return in the current state
RestoreUserNow(id) == RestoreUserResult(users, id)
UpdateUserNow(id, data) == UpdateUserResult(users, id, data, TimeNow)
GetUsersNow(query) == GetUsersResult(users, query)
ListUsersNow(req) == ListUsersResponse(users, req)

\* the stored accounts with an identifier
WithID(rows, uuid) == {u \in rows : u.ID = uuid}

\* C11: restore fails with the invalid-id error for an id that is no UUID,
\* with "user not found" when no account, active or soft-deleted, has the
\* id, and with "user is not deleted" when the account is active, and the
\* table stays as it was in all three cases; restore of a soft-deleted
\* account succeeds, returns that account with a null deletion timestamp,
\* and the default lookup of the id succeeds afterwards.
C11_Restore ==
    \A id \in IdInputs :
        LET res == RestoreUserNow(id) IN
        /\ id.form = "malformed"
            => res.err = ErrInvalidID /\ res.rows = users
        /\ (id.form # "malformed" /\ WithID(users, id.uuid) = {}
                /\ id.uuid \notin SoftDeleted)
            => res.err = ErrUserNotFound /\ res.rows = users
        /\ (id.form # "malformed"
                /\ \E u \in WithID(users, id.uuid) : u.DeletedAt = NULL)
            => res.err = ErrNotDeleted /\ res.rows = users
        /\ (id.form # "malformed" /\ id.uuid \in SoftDeleted)
            => /\ res.err = NoErr
               /\ res.user # {}
               /\ \A u \in res.user : u.ID = id.uuid /\ u.DeletedAt = NULL
               /\ GetUserByIDResult(res.rows, id).err = NoErr

AtLeastOne(page) ==
    \/ page.hi = 0 /\ page.lo >= 1
    \/ page.hi \in 1..31
    \/ page.hi = 32 /\ page.lo < 0

\* the page and perPage in effect for a requested page and perPage
EffectivePage(page) == IF AtLeastOne(page) THEN page ELSE Small(1)
EffectivePerPage(perPage) == IF perPage \in 1..100 THEN perPage ELSE 10

\* the values a page or per_page parameter can have
PageParams == {Absent, NotANumber} \cup {Decimal(p) : p \in PageInputs}
PerPageParams ==
    {Absent, NotANumber, Decimal(BigPage)}
        \cup {Decimal(Small(n)) : n \in PerPageInputs}

\* the number a parameter asks for, where it is one: a singleton or empty
Requested(param) == IF param.form = "int" THEN {param.n} ELSE {}

\* C13: list rejects no page and no perPage: the page in effect is the
\* requested page when that is at least 1 and 1 otherwise, the perPage in
\* effect is the requested perPage when that is in 1..100 and 10 otherwise,
\* below 1 as above 100; the response reports the page and per_page in
\* effect.
C13_Clamp ==
    /\ \A page \in PageInputs, perPage \in PerPageInputs :
        LET query == [NoFilter EXCEPT !.Page = page, !.PerPage = perPage]
            effective == [query EXCEPT !.Page = EffectivePage(page),
                                       !.PerPage = EffectivePerPage(perPage)]
        IN
        /\ GetUsersNow(query).err = NoErr
        /\ DefaultPagination(query) = effective
        /\ GetUsersNow(query) = UserRepoGetUsers(users, effective)
    /\ \A page \in PageParams, perPage \in PerPageParams :
        LET res == ListUsersNow([page |-> page, per_page |-> perPage,
                                 search |-> <<>>, show_deleted |-> ""])
        IN
        /\ res.Page = IF \E n \in Requested(page) : AtLeastOne(n)
                      THEN page.n ELSE Small(1)
        /\ res.PerPage = IF \E n \in Requested(perPage) :
                                n.hi = 0 /\ n.lo \in 1..100
                         THEN perPage.n.lo ELSE 10
    /\ last.op = "ListUsers"
        => /\ AtLeastOne(last.page)
           /\ last.perPage \in 1..100
           /\ last.count <= last.perPage

\* C13 witness: a listing asked for page 0 and 101 accounts a page was
\* just answered with page 1 and per_page 10 while an account is stored.
C13_Witness ==
    /\ last.op = "ListUsers"
    /\ last.req.page = Decimal(Small(0))
    /\ last.req.per_page = Decimal(Small(101))
    /\ last.page = Small(1)
    /\ last.perPage = 10
    /\ last.total >= 1

\* the least n with n * perPage >= total
LeastPages(total, perPage) ==
    CHOOSE n \in 0..total :
        /\ n * perPage >= total
        /\ \A m \in 0..(n - 1) : m * perPage < total

\* C14: for a total of 0 or more and a perPage in 1..100 the page count is
\* the least n with n * perPage >= total: 0 for total 0, 3 for total 25 and
\* perPage 10; a perPage of 0 or less counts as 10.  The response's page
\* count is computed with the perPage that limited the query.
C14_TotalPages ==
    /\ last.op = "CalculatePagination"
        => /\ last.perPage \in 1..100
                => last.totalPages = LeastPages(last.total, last.perPage)
           /\ last.perPage <= 0
                => last.totalPages = LeastPages(last.total, 10)
           /\ last.total = 0 => last.totalPages = 0
           /\ last.total = 25 /\ last.perPage = 10 => last.totalPages = 3
    /\ \A req \in ListUsersInputs :
        LET res == ListUsersNow(req)
            query == DefaultPagination(ParseListUsersQuery(req))
        IN
        /\ res.PerPage = query.PerPage
        /\ res.TotalPages = LeastPages(res.Total, query.PerPage)
        /\ Len(res.Items) <= query.PerPage
        /\ query.Page = Small(1)
            => Len(res.Items) = IF res.Total <= query.PerPage
                                THEN res.Total ELSE query.PerPage
    /\ last.op = "ListUsers"
        => last.totalPages = LeastPages(last.total, last.perPage)

\* C14 witness: the page count of 25 accounts, 10 a page, was just
\* computed as 3.
C14_Witness ==
    /\ last.op = "CalculatePagination"
    /\ last.total = 25
    /\ last.perPage = 10
    /\ last.totalPages = 3

\* the text contains the term, whatever the case of their letters
ContainsFold(text, term) ==
    \E i \in 0..(Len(text) - Len(term)) :
        \A k \in 1..Len(term) :
            ToLowerChar(text[i + k]) = ToLowerChar(term[k])

\* an account satisfies a filter: its role, origin and verified flag are
\* the ones asked for, the allow-listed field searched contains the term,
\* and it is not soft-deleted unless soft-deleted accounts are asked for
Satisfies(account, query) ==
    /\ query.Role # "" => account.Role = query.Role
    /\ query.Provider # "" => account.Provider = query.Provider
    /\ \A v \in query.Verified : account.Verified = v
    /\ (query.Search # <<>> /\ query.SearchBy \in {"name", "email"})
        => ContainsFold(Column(account, query.SearchBy), query.Search)
    /\ ~query.ShowDeleted => account.DeletedAt = NULL

\* filters on role, origin, verified flag, search and visibility
FilterQueries ==
    {[NoFilter EXCEPT !.Role = r, !.Provider = o, !.Verified = v,
                      !.Search = t, !.SearchBy = f, !.ShowDeleted = d] :
        r \in {"", "user", "admin"}, o \in {"", "local", "google"},
        v \in {{}, {TRUE}, {FALSE}}, t \in { <<>>, <<"a">>, <<"B">> },
        f \in SearchByInputs, d \in BOOLEAN}

\* C15: for any filter, list returns at most perPage accounts, every
\* returned account satisfies the filter, and the total is the number of
\* stored accounts that satisfy it, whatever the page and perPage.
C15_FilteredPage ==
    \A query \in FilterQueries :
        LET matching == {u \in users : Satisfies(u, query)} IN
        \A page \in {Small(1), Small(2)}, perPage \in {1, 10} :
            LET res == GetUsersNow([query EXCEPT !.Page = page,
                                                 !.PerPage = perPage])
            IN
            /\ Len(res.users) <= perPage
            /\ \A k \in 1..Len(res.users) : Satisfies(res.users[k], query)
            /\ res.total = Cardinality(matching)

\* the identifiers of a sequence of accounts, in order
IDs(accounts) == [k \in 1..Len(accounts) |-> accounts[k].ID]

\* the identifiers on pages 1..n of a query, one page after the other
RECURSIVE ConcatPages(_, _)
ConcatPages(query, n) ==
    IF n = 0 THEN <<>>
    ELSE ConcatPages(query, n - 1)
            \o IDs(GetUsersNow([query EXCEPT !.Page = Small(n)]).users)

\* a page number greater than n
Beyond(page, n) == AtLeastOne(page) /\ (page.hi # 0 \/ page.lo > n)

\* C16: over an unchanged table, with a fixed filter and perPage, pages
\* 1..totalPages one after the other hold every account that satisfies the
\* filter exactly once, newest first; page k holds the accounts at offsets
\* (k-1)*perPage .. k*perPage-1 of that order; every page beyond
\* totalPages is empty.
C16_Pages ==
    \A filter \in {NoFilter, [NoFilter EXCEPT !.Role = "admin"],
                   [NoFilter EXCEPT !.Search = <<"a">>,
                                    !.SearchBy = "email"]},
       perPage \in {1, 2, 4} :
        LET query == [filter EXCEPT !.PerPage = perPage]
            matching == {u \in users : Satisfies(u, query)}
            totalPages == CalculatePagination(Cardinality(matching),
                                              Small(1), perPage)
            all == ConcatPages(query, totalPages)
        IN
        /\ Len(all) = Cardinality(matching)
        /\ {all[k] : k \in 1..Len(all)} = {u.ID : u \in matching}
        /\ \A j, k \in 1..Len(all) :
            j < k => \E u, w \in matching :
                        /\ u.ID = all[j]
                        /\ w.ID = all[k]
                        /\ u.CreatedAt > w.CreatedAt
        /\ \A k \in 1..totalPages :
            IDs(GetUsersNow([query EXCEPT !.Page = Small(k)]).users)
                = SubSeq(all, (k - 1) * perPage + 1,
                         IF k * perPage <= Len(all)
                         THEN k * perPage ELSE Len(all))
        /\ \A page \in PageInputs :
            Beyond(page, totalPages)
                => GetUsersNow([query EXCEPT !.Page = page]).users = <<>>

\* C17: list without the include-deleted flag returns and counts no
\* account whose deletion timestamp is set; list with the flag returns and
\* counts the active and the soft-deleted accounts.
C17_DeletedVisibility ==
    /\ LET res == GetUsersNow(NoFilter) IN
        /\ \A k \in 1..Len(res.users) :
            /\ res.users[k].DeletedAt = NULL
            /\ res.users[k].ID \notin SoftDeleted
        /\ res.total = Cardinality({u \in users : u.DeletedAt = NULL})
    /\ LET res == GetUsersNow([NoFilter EXCEPT !.ShowDeleted = TRUE]) IN
        /\ \A u \in users : \E k \in 1..Len(res.users) :
                                res.users[k].ID = u.ID
        /\ \A i \in SoftDeleted : \E k \in 1..Len(res.users) :
                                    res.users[k].ID = i
        /\ res.total
            = Cardinality({u.ID : u \in users} \cup SoftDeleted)

\* C18: with a searchBy that is neither "name" nor "email", list returns
\* the accounts and the total it returns for the same filter with no
\* search, whatever the term; with searchBy "name" or "email" and a term
\* that is not empty it returns exactly the accounts whose field contains
\* the term, whatever the case of the letters.
C18_Search ==
    /\ \A filter \in {NoFilter, [NoFilter EXCEPT !.Role = "admin"]},
          term \in SearchInputs, searchBy \in {"", "role", "Name"} :
        GetUsersNow([filter EXCEPT !.Search = term, !.SearchBy = searchBy])
            = GetUsersNow(filter)
    /\ \A term \in SearchInputs \ { <<>> }, searchBy \in {"name", "email"} :
        LET res == GetUsersNow([NoFilter EXCEPT !.Search = term,
                                                !.SearchBy = searchBy])
            holding == {u \in users :
                            ContainsFold(Column(u, searchBy), term)}
        IN
        /\ res.err = NoErr
        /\ {res.users[k].ID : k \in 1..Len(res.users)}
                = {u.ID : u \in holding}
        /\ res.total = Cardinality(holding)

\* the accounts other than the one with the identifier that hold an email
OtherHolders(rows, uuid, email) == {u \in rows : u.Email = email /\ u.ID # uuid}

UpdateErrors ==
    {ErrInvalidID, ErrNameRequired, ErrEmailRequired, ErrUserNotFound,
     ErrEmailTaken}

\* C19: update fails with the invalid-id error for an id that is no UUID,
\* with a validation error for an empty name or email, with "user not
\* found" when no active account has the id, and with the conflict error
\* exactly when the supplied email is not the account's own and another
\* account holds it; the account's own email never conflicts; a failing
\* update leaves the table as it was.
C19_UpdateErrors ==
    /\ \A id \in IdInputs, data \in UpdateUserData :
        LET res == UpdateUserNow(id, data)
            active == {u \in WithID(users, id.uuid) : u.DeletedAt = NULL}
            valid == id.form # "malformed" /\ data.Name # ""
                        /\ data.Email # <<>>
        IN
        /\ id.form = "malformed" => res.err = ErrInvalidID
        /\ id.form # "malformed" /\ data.Name = ""
            => res.err = ErrNameRequired
        /\ (id.form # "malformed" /\ data.Name # "" /\ data.Email = <<>>)
            => res.err = ErrEmailRequired
        /\ valid /\ active = {} => res.err = ErrUserNotFound
        /\ valid /\ active # {}
            => /\ res.err \in {NoErr, ErrEmailTaken}
               /\ res.err = ErrEmailTaken
                    <=> /\ \A u \in active : u.Email # data.Email
                        /\ OtherHolders(users, id.uuid, data.Email) # {}
        /\ (valid /\ \E u \in active : u.Email = data.Email)
            => res.err = NoErr
        /\ res.err # NoErr => res.err \in UpdateErrors /\ res.rows = users
    /\ \A i \in SoftDeleted \cup purged, data \in UpdateUserData :
        UpdateUserNow(IdText(i), data).err # NoErr
    /\ last.op = "UpdateUser" => last.err \in UpdateErrors \cup {NoErr}

\* C19 witness: an update was just refused because the other of two stored
\* accounts holds the email.
C19_Witness ==
    /\ last.op = "UpdateUser"
    /\ last.err = ErrEmailTaken
    /\ Cardinality(users) = 2

\* C20: after a successful update the stored account has the supplied
\* name, the supplied role or "user" for an empty one, the supplied avatar
\* or "default.png" for an empty one, and the supplied verified flag.
C20_UpdateStores ==
    \A id \in IdInputs, data \in UpdateUserData :
        LET res == UpdateUserNow(id, data) IN
        res.err = NoErr =>
            /\ WithID(res.rows, id.uuid) # {}
            /\ \A u \in WithID(res.rows, id.uuid) :
                /\ u.Name = data.Name
                /\ u.Role = IF data.Role = "" THEN "user" ELSE data.Role
                /\ u.Photo = IF data.Photo = "" THEN "default.png"
                             ELSE data.Photo
                /\ u.Verified = data.Verified

\* what the calls that create and remove accounts return in the current
\* state
CreateUserNow(data) == CreateUserResult(users, data, nextID, TimeNow)
DeleteUserNow(id) == DeleteUserResult(users, id)
HardDeleteUserNow(id) == UserRepoHardDeleteUser(users, id)

\* the identifiers of the stored accounts
StoredIDs(rows) == {u.ID : u \in rows}

\* the two rows differ in nothing, or in the deletion timestamp only
SameButDeletedAt(u, w) == [w EXCEPT !.DeletedAt = u.DeletedAt] = u

\* the creations, as submitted, that the claims are stated over
CreateUserInputs ==
    [ Name : {"", "Ann"}, Email : EmailInputs,
      Password : { <<>>, ShortPassword, GoodPassword },
      Role : {"", "admin"}, Provider : {"", "google"}, Photo : {""},
      Verified : BOOLEAN ]

\* C21 (update): a successful update leaves the identifier, the email, the
\* password digest, the origin, the creation and the deletion timestamp of
\* the account as they were, whatever email the request carries, and leaves
\* every other account as it was.
C21_UpdateFrame ==
    \A id \in IdInputs, data \in UpdateUserData :
        LET res == UpdateUserNow(id, data) IN
        res.err = NoErr =>
            /\ StoredIDs(res.rows) = StoredIDs(users)
            /\ res.rows \ WithID(res.rows, id.uuid)
                    = users \ WithID(users, id.uuid)
            /\ \A u \in WithID(users, id.uuid) :
                \E w \in WithID(res.rows, id.uuid) :
                    /\ w.Email = u.Email
                    /\ w.Password = u.Password
                    /\ w.Provider = u.Provider
                    /\ w.CreatedAt = u.CreatedAt
                    /\ w.DeletedAt = u.DeletedAt

\* C21 (identifiers): a creation adds one identifier, which no account
\* has, and changes no stored account; no other call adds an identifier.
C21_Identifiers ==
    /\ \A data \in SignUpData, salt \in Salts :
        /\ users \subseteq SignUpNow(data, salt).rows
        /\ StoredIDs(SignUpNow(data, salt).rows)
                \subseteq StoredIDs(users) \cup {nextID}
    /\ \A data \in CreateUserInputs :
        /\ users \subseteq CreateUserNow(data).rows
        /\ StoredIDs(CreateUserNow(data).rows)
                \subseteq StoredIDs(users) \cup {nextID}
    /\ nextID \notin StoredIDs(users)
    /\ \A id \in IdInputs :
        /\ StoredIDs(DeleteUserNow(id).rows) \subseteq StoredIDs(users)
        /\ StoredIDs(RestoreUserNow(id).rows) \subseteq StoredIDs(users)
        /\ StoredIDs(HardDeleteUserNow(id).rows) \subseteq StoredIDs(users)
        /\ DeleteUserNow(id).rows \ WithID(DeleteUserNow(id).rows, id.uuid)
                = users \ WithID(users, id.uuid)
        /\ RestoreUserNow(id).rows \ WithID(RestoreUserNow(id).rows, id.uuid)
                = users \ WithID(users, id.uuid)
        /\ HardDeleteUserNow(id).rows = users \ WithID(users, id.uuid)

\* C21 (softDelete, restore): after a successful softDelete or restore the
\* account is stored with every field but the deletion timestamp as it was.
C21_DeleteRestoreFrame ==
    \A id \in IdInputs :
        /\ DeleteUserNow(id).err = NoErr =>
            \A u \in WithID(users, id.uuid) :
                \E w \in DeleteUserNow(id).rows : SameButDeletedAt(u, w)
        /\ RestoreUserNow(id).err = NoErr =>
            \A u \in WithID(users, id.uuid) :
                \E w \in RestoreUserNow(id).rows : SameButDeletedAt(u, w)

\* C21: no operation changes the identifier of a stored account; a
\* successful update leaves the account's email, password digest, origin,
\* creation timestamp and deletion timestamp as they were, even when the
\* request carries another email; softDelete and restore change no field
\* other than the deletion timestamp.
C21_Frame == C21_Identifiers /\ C21_UpdateFrame /\ C21_DeleteRestoreFrame

\* C22: in every state that registrations, administrative creations,
\* updates, softDeletes, restores and hardDeletes lead to, no two stored
\* accounts have the same email; a creation or an update that returns leaves
\* it so.
C22_UniqueEmail ==
    /\ \A u \in users, w \in users : u.Email = w.Email => u = w
    /\ \A data \in SignUpData, salt \in Salts :
        \A u \in SignUpNow(data, salt).rows, w \in SignUpNow(data, salt).rows :
            u.Email = w.Email => u = w
    /\ \A data \in CreateUserInputs :
        \A u \in CreateUserNow(data).rows, w \in CreateUserNow(data).rows :
            u.Email = w.Email => u = w
    /\ \A id \in IdInputs, data \in UpdateUserData :
        \A u \in UpdateUserNow(id, data).rows,
           w \in UpdateUserNow(id, data).rows :
            u.Email = w.Email => u = w

\* C22 witness: with two accounts stored, one of them created
\* administratively, a creation with the email of one of them was just
\* refused.
C22_Witness ==
    /\ last.op \in {"SignUp", "CreateUser"}
    /\ last.err = ErrEmailExists
    /\ Cardinality(users) = 2
    /\ \E u \in users : u.Verified

\* C23 (register): a registration that loses to a creation with the same
\* email fails with "user with that email already exists", which the auth
\* boundary answers with a conflict.
C23_Register ==
    /\ last.op = "SignUp" => last.err \in {NoErr, ErrEmailExists}
    /\ \A data \in AdminSignUpData, salt \in Salts :
        LET res == SignUpNow(data, salt) IN
        Holders(users, NormalizeEmail(data.Email)) # {}
            => /\ res.err = ErrEmailExists
               /\ res.rows = users
               /\ AuthHandleServiceError(res.err).code = "StatusConflict"

\* C23 (administrative creation): a CreateUser call that has looked the
\* email up and found nothing, and whose insert comes after another
\* creation with that email, fails with "user with that email already
\* exists", which the account boundary answers with a conflict.
C23_Create ==
    /\ last.op = "CreateUser" /\ last.done
        => /\ last.err \in {NoErr, ErrEmailExists}
           /\ Cardinality(Holders(users, last.data.Email)) = 1
    /\ \A p \in Procs :
        procs[p].pc = "looked up" /\ Holders(users, procs[p].data.Email) # {}
            => LET res == CreateUserInsertResult(users, procs[p].data,
                                                 nextID, TimeNow)
               IN  /\ res.err = ErrEmailExists
                   /\ res.rows = users
                   /\ UserHandleServiceError(res.err).code = "StatusConflict"

\* C23: of two creations with the same email that run side by side,
\* registrations or administrative creations, exactly one succeeds however
\* their look-ups and inserts interleave, and the other fails with the
\* conflict error: the store's uniqueness violation reaches no caller
\* untranslated or as an internal error.
C23_ConcurrentCreate ==
    /\ \A u \in users, w \in users : u.Email = w.Email => u = w
    /\ C23_Register
    /\ C23_Create

\* C24: in every reachable state every stored account of origin "local",
\* registered or created administratively, has a password digest that is
\* not empty and is not the password it was created with.
C24_LocalDigest ==
    \A u \in users :
        u.Provider = "local"
            => /\ u.Password # <<>>
               /\ u.Password # plain[u.ID]

\* C25: in every reachable state the email of every stored account is its
\* own trimmed, lower-cased form, whichever creation stored it, so no two
\* stored accounts differ only in the case or the surrounding white space
\* of their emails.
C25_NormalizedEmail ==
    /\ \A u \in users :
        /\ u.Email = NormalizeEmail(u.Email)
        /\ IsNormalized(u.Email)
    /\ \A u \in users, w \in users :
        NormalizeEmail(u.Email) = NormalizeEmail(w.Email) => u = w

\* the errors the services name
NamedErrors ==
    ValidationErrors \cup UpdateErrors
        \cup {ErrPasswordMismatch, ErrEmailExists, ErrInvalidCredentials,
              ErrNotDeleted}

\* the one response for an unexpected failure
InternalError ==
    Response("StatusInternalServerError", "error", "Internal server error")

\* the error texts of failures that are no named error: a failing store,
\* as it comes and as SignUp wraps it, a failing token generation, and the
\* store's own not-found
UnexpectedErrors ==
    {Join(f) : f \in StoreFailures}
        \cup {SignUpCreateError(f) : f \in StoreFailures}
        \cup {"failed to generate token: " \o Join(f) :
                    f \in PrimitiveFailures}
        \cup {ErrRecordNotFound, Join(PgDuplicateKey)}

\* C26 (account boundary): the account boundary answers every failure that
\* is no named error with the internal-error status and one fixed message.
C26_UserBoundary ==
    /\ \A err \in UnexpectedErrors : UserHandleServiceError(err) = InternalError
    /\ (last.op \in {"SignUpUser", "SignInUser", "GetMe", "GetUserByID"}
            /\ last.boundary = "user" /\ last.err \notin NamedErrors \cup {NoErr})
        => /\ last.code = InternalError.code
           /\ last.message = InternalError.message

\* C26 (auth boundary): the auth boundary does the same.
C26_AuthBoundary ==
    /\ \A err \in UnexpectedErrors : AuthHandleServiceError(err) = InternalError
    /\ (last.op \in {"SignUpUser", "SignInUser", "GetMe", "GetUserByID"}
            /\ last.boundary = "auth" /\ last.err \notin NamedErrors \cup {NoErr})
        => /\ last.code = InternalError.code
           /\ last.message = InternalError.message
           /\ last.message # last.err

\* C26: every failure that is none of the named business errors, a failing
\* store, a failing hash or token generation, a not-found of the store that
\* no service translated, is answered by the account boundary and by the
\* auth boundary with the internal-error status and a fixed generic
\* message, never with the text of the underlying error.
C26_OpaqueInternalError == C26_UserBoundary /\ C26_AuthBoundary

\* the response of a plain synchronous call of GetUsers followed by
\* CalculatePagination, on the table and with the failure the call met
ListUsersSync(rows, req, failure) ==
    LET query == ParseListUsersQuery(req)
        got == GetUsersResultOnFailure(rows, query, failure)
    IN  IF got.err # NoErr
        THEN [ok |-> FALSE, body |-> UserHandleServiceError(got.err)]
        ELSE [ok |-> TRUE, body |-> ListUsersResponse(rows, req)]

\* C27 (safety): the goroutine has sent exactly one result when it closes
\* the channel and never more than one; the handler receives a value that
\* was sent, never the zero value of the closed channel; its response is
\* the response of the synchronous call.
C27_OneResult ==
    /\ \A p \in Procs :
        procs[p].pc \in {"receive", "responded"}
            => /\ procs[p].sent <= 1
               /\ Len(procs[p].chan) <= 1
               /\ procs[p].go \in {"close", "done"} => procs[p].sent = 1
               /\ procs[p].closed => procs[p].sent = 1
               /\ (procs[p].closed /\ procs[p].pc = "receive")
                    => procs[p].chan # <<>>
    /\ last.op = "ListUsersRequest" /\ last.step = "respond"
        => /\ ~last.zero
           /\ last.answer = ListUsersSync(last.read, last.req, last.failure)
           /\ last.failure # <<>>
                => last.answer.body
                    = UserHandleServiceError(Join(last.failure))

\* C27 (liveness): once GetUsers has returned to the goroutine, with
\* users or with an error, the handler that waits on the channel receives.
C27_Receives ==
    \A p \in Procs :
        (procs[p].pc = "receive" /\ procs[p].go # "fetch")
            ~> (procs[p].pc = "responded")

\* C27: the goroutine of the ListUsers handler adds no behaviour: whatever
\* GetUsers returns, the goroutine sends exactly one result on the one-slot
\* channel before it closes it, the handler's receive does not wait for
\* ever and never yields the zero value of a closed empty channel, and the
\* response is that of a synchronous call of GetUsers and then
\* CalculatePagination: the service error when GetUsers fails, otherwise
\* items, total, page, perPage and totalPages.
C27_Goroutine == []C27_OneResult /\ C27_Receives

\* C27 witness: the handler just answered with the error of a failed
\* GetUsers that the goroutine sent, the channel not yet closed.
C27_Witness ==
    /\ last.op = "ListUsersRequest"
    /\ last.step = "respond"
    /\ ~last.answer.ok
    /\ \E p \in Procs : procs[p].pc = "responded" /\ procs[p].go = "close"
    /\ users # {}

\* a registration and an administrative creation with the given email
RegistrationWith(email) ==
    [ Name |-> "Ann", Email |-> email, Password |-> GoodPassword,
      PasswordConfirm |-> GoodPassword, Photo |-> "" ]
CreationWith(email) ==
    [ Name |-> "Ann", Email |-> email, Password |-> GoodPassword,
      Role |-> "", Provider |-> "", Photo |-> "", Verified |-> FALSE ]

\* C28 (at once): right after a successful DeleteUser of an account whose
\* email is stored as sign-in looks it up, SignIn with its email and its
\* password fails with "invalid email or password" and returns no token.
C28_AfterDelete ==
    \A u \in users :
        LET deleted == DeleteUserNow(IdText(u.ID))
            res == SignInResult(deleted.rows, u.Email, plain[u.ID])
        IN  (deleted.err = NoErr /\ NormalizeEmail(u.Email) = u.Email)
                => res.err = ErrInvalidCredentials /\ res.token = ""

\* C28 (later): and it still fails after a registration that follows the
\* DeleteUser, no RestoreUser having been called.
C28_AfterRegistration ==
    \A u \in users, data \in AdminSignUpData, salt \in Salts :
        LET deleted == DeleteUserNow(IdText(u.ID))
            again == SignUpResult(deleted.rows, data, nextID, salt, TimeNow)
            res == SignInResult(again.rows, u.Email, plain[u.ID])
        IN  (deleted.err = NoErr /\ NormalizeEmail(u.Email) = u.Email)
                => res.err = ErrInvalidCredentials /\ res.token = ""

\* C28: from a successful softDelete of an account until its restore, SignIn
\* with the account's email and correct password fails with the invalid
\* credentials error and issues no token.
C28_SignInRefused == C28_AfterDelete /\ C28_AfterRegistration

\* C29 (conflict): after a successful DeleteUser of an account, a
\* registration and an administrative creation with its email fail with
\* "user with that email already exists" and add no row.
C29_Conflict ==
    \A u \in users, salt \in Salts :
        LET deleted == DeleteUserNow(IdText(u.ID))
            signedUp == SignUpResult(deleted.rows, RegistrationWith(u.Email),
                                     nextID, salt, TimeNow)
            created == CreateUserResult(deleted.rows, CreationWith(u.Email),
                                        nextID, TimeNow)
        IN  deleted.err = NoErr
                => /\ signedUp.err = ErrEmailExists
                   /\ signedUp.rows = deleted.rows
                   /\ created.err = ErrEmailExists
                   /\ created.rows = deleted.rows

\* C29 (free again): after a successful HardDeleteUser of an account, and
\* after a HardDeleteUser that follows its DeleteUser, a registration with
\* the account's email succeeds.
C29_AfterHardDelete ==
    \A u \in users, salt \in Salts :
        LET purge == HardDeleteUserNow(IdText(u.ID))
            deleted == DeleteUserNow(IdText(u.ID))
            late == UserRepoHardDeleteUser(deleted.rows, IdText(u.ID))
            signedUp == SignUpResult(purge.rows, RegistrationWith(u.Email),
                                     nextID, salt, TimeNow)
            lateSignedUp == SignUpResult(late.rows, RegistrationWith(u.Email),
                                         nextID, salt, TimeNow)
        IN  NormalizeEmail(u.Email) = u.Email
                => /\ purge.err = NoErr
                   /\ signedUp.err = NoErr
                   /\ \E w \in signedUp.rows :
                        w.ID = nextID /\ w.Email = u.Email
                   /\ deleted.err = NoErr
                        => /\ lateSignedUp.err = NoErr
                           /\ \E w \in lateSignedUp.rows :
                                w.ID = nextID /\ w.Email = u.Email

\* C29: a registration or an administrative creation with the email of a
\* soft-deleted account that was not hard-deleted fails with the conflict
\* error and creates no account; after the hardDelete of that account the
\* email can be registered again.
C29_SoftDeletedEmail == C29_Conflict /\ C29_AfterHardDelete

\* the statistics of the current table, its three calls with nothing in
\* between
GetUserStatsNow ==
    StatsMap(GetUsersResult(users, StatsQuery("", {})).total,
             GetUsersResult(users, StatsQuery("", {TRUE})).total,
             GetUsersResult(users, StatsQuery("admin", {})).total)

\* the five counts are not negative and the parts are not above the total
SoundStats(stats) ==
    /\ stats.total_users >= 0
    /\ stats.verified_users >= 0
    /\ stats.admin_users >= 0
    /\ stats.regular_users >= 0
    /\ stats.unverified_users >= 0
    /\ stats.admin_users <= stats.total_users
    /\ stats.verified_users <= stats.total_users

\* C30 (one table): the statistics of one state of the table are sound.
C30_OneTable == SoundStats(GetUserStatsNow)

\* C30 (read-only): no step of GetUserStats changes the table or any other
\* stored state.
C30_ReadOnly ==
    [][(\E p \in Procs : \/ GetUserStatsTotal(p)
                         \/ GetUserStatsVerified(p)
                         \/ GetUserStatsAdmins(p))
            => UNCHANGED <<users, nextID>>]_vars

\* C30 (counts): the statistics of every response are sound.
C30_Counts ==
    (last.op = "GetUserStats" /\ last.step = "respond")
        => SoundStats(last.stats)

\* C30: GetUserStats changes no stored state, and in every response the
\* five counts are not negative, admin_users <= total_users and
\* verified_users <= total_users, also when other requests create, update
\* or delete accounts between its three calls of GetUsers.
C30_Stats == C30_ReadOnly /\ []C30_Counts

====
